---- MODULE Spec2Model ----
(***************************************************************************)
(* A model of the convector path tracer core: the BVH builder and the      *)
(* packet traversal of bvh.rs, and the render kernel of renderer.rs.       *)
(*                                                                         *)
(* Geometry is exact integer geometry.  The vertices of a triangle sum to  *)
(* a multiple of three in every coordinate, so that barycenters are        *)
(* integral.  The vertices of a triangle that is traced are multiples of   *)
(* three, and the triangle lies in a plane perpendicular to a coordinate   *)
(* axis; ray directions have components +1 or -1, so that every slab       *)
(* distance and every triangle distance is an integer.  Indices into Vecs  *)
(* are zero-based as in the                                                *)
(* source; the sequence that models a Vec holds element i at position i+1. *)
(***************************************************************************)
EXTENDS Integers, Sequences, FiniteSets, TLC

VARIABLES
    \* ---- bvh.rs -------------------------------------------------------
    source_triangles,   \* Bvh::build's argument: Seq of catalogue triangle ids
    tree,               \* the InterimNode tree: Seq of InterimNode, root at 1
    todo,               \* pending split_recursive calls (node ids, next first)
    cstack,             \* pending crystallize calls / returns
    nodes,              \* Bvh.nodes: Seq of BvhNode
    slot_owner,         \* history: the interim node crystallized into each slot
                        \* of nodes (0 while none was)
    sorted_triangles,   \* Bvh.triangles: Seq of indices into source_triangles
    pc,                 \* where the program is
    panic,              \* the assertion that failed, "" if none
    ray,                \* the packet being traced: lane -> MRay
    isect0,             \* the intersection passed to intersect_nearest
    isect,              \* the accumulated intersection: lane -> hit
    stack,              \* the traversal stack of intersect_nearest
    pushes,             \* history: how often each node was pushed on the
                        \* stack in this call (<<>> before the call)
    max_dist,           \* intersect_any's max_dist per lane (<<>> if not called)
    any_mask,           \* intersect_any's result per lane (<<>> until returned)
    \* ---- renderer.rs: patches ----------------------------------------
    bitmap,             \* the RenderBuffer: Seq-like map of Mi32 (8 pixels each)
    gbuffer,            \* the G-buffer: same layout as bitmap
    hdr_buffer,         \* the f32 accumulation buffer: one entry per 16x4 block
    workers,            \* the running render_patch_u8 / accumulate_patch_f32
                        \* calls: arguments, loop position and rng of each
    writes,             \* history: the buffer elements each call assigned,
                        \* in order
    \* ---- renderer.rs: render_pixels ----------------------------------
    path_pc,            \* where render_pixels is
    path_ray,           \* the packet followed: lane -> MRay (abstracted)
    color,              \* the accumulated color: lane -> channels
    hit_emissive,       \* material of the last intersection: lane -> sign bit
    bounce,             \* the loop counter i
    pixel_color,        \* the color render_pixels returns (<<>> until then)
    texture_index,      \* lane -> texture index saved for the G-buffer
    texture_coords,     \* lane -> texture coordinates saved for the G-buffer
    fresnel,            \* lane -> Fresnel factor saved for the G-buffer
    intersections,      \* history: the calls of scene.intersect_nearest
    \* ---- quaternion.rs, simd.rs: functions without state ---------------
    call,               \* the function called and its arguments (<<>>: none)
    result              \* what it returned (<<>> until it did)

bvh_vars == <<source_triangles, tree, todo, cstack, nodes, slot_owner,
              sorted_triangles, pc, panic, ray, isect0, isect, stack,
              pushes, max_dist, any_mask>>

patch_vars == <<bitmap, gbuffer, hdr_buffer, workers, writes>>

path_vars == <<path_pc, path_ray, color, hit_emissive, bounce, pixel_color,
               texture_index, texture_coords, fresnel, intersections>>

unit_vars == <<call, result>>

renderer_vars == <<patch_vars, path_vars, unit_vars>>

vars == <<bvh_vars, renderer_vars>>

(***************************************************************************)
(* Bounds of the model.                                                    *)
(***************************************************************************)
MaxTris == 3        \* most triangles in a source mesh
PacketLanes == 2    \* lanes of a traced packet (an Mf32 has 8)
ViewTiles == 2      \* width of the viewport, in tiles of 16 pixels
JitterSteps == 2    \* sub-pixel positions per axis the rng can produce
MaxFrames == 3      \* frames accumulated into one HDR buffer
MantissaBits == 3   \* significant bits of a rounded number (an f32 has 24)

(***************************************************************************)
(* Program constants.                                                      *)
(***************************************************************************)
NumBins == 64
AabbIntersectionCost == 40
TriangleIntersectionCost == 120
InvIntersectionProbability == 10    \* intersection_probability is 0.1
CostScale == 1000                   \* fixed-point unit of the heuristic
Epsilon == 1                        \* Mf32::epsilon(), in distance units
NaN == -1                           \* the f32 NaN of a cost (costs are >= 0)

Axes == <<1, 2, 3>>                 \* Axis::X, Axis::Y, Axis::Z
Lanes == 1..PacketLanes

Min(a, b) == IF a <= b THEN a ELSE b
Max(a, b) == IF a >= b THEN a ELSE b
MinOf(S) == CHOOSE x \in S : \A y \in S : x <= y
MaxOf(S) == CHOOSE x \in S : \A y \in S : x >= y
Range(s) == {s[i] : i \in DOMAIN s}

\* Body(v), with v evaluated once.
With(v, Body(_)) == CHOOSE r \in {Body(w) : w \in {v}} : TRUE

(***************************************************************************)
(* The triangles a mesh is drawn from.  T1, T2 and T3 are three faces      *)
(* around the origin that share vertices, T4 and T5 are far away, and T6   *)
(* is T1 with the opposite winding (the same barycenter).                  *)
(***************************************************************************)
Catalogue ==
    << [v0 |-> <<0, 0, 0>>, v1 |-> <<0, 3, 0>>, v2 |-> <<0, 0, 3>>],
       [v0 |-> <<0, 0, 0>>, v1 |-> <<0, 0, 3>>, v2 |-> <<3, 0, 0>>],
       [v0 |-> <<3, 0, 0>>, v1 |-> <<3, 0, 3>>, v2 |-> <<6, 0, 0>>],
       [v0 |-> <<9, 9, 9>>, v1 |-> <<12, 9, 9>>, v2 |-> <<9, 12, 9>>],
       [v0 |-> <<0, 9, 0>>, v1 |-> <<0, 12, 0>>, v2 |-> <<0, 9, 3>>],
       [v0 |-> <<0, 0, 0>>, v1 |-> <<0, 0, 3>>, v2 |-> <<0, 3, 0>>] >>

RECURSIVE IncreasingSeqs(_, _)
\* The strictly increasing sequences over lo..Len(Catalogue) of length <= n.
IncreasingSeqs(lo, n) ==
    IF n = 0 THEN {<<>>}
    ELSE {<<>>} \cup UNION {{<<i>> \o s : s \in IncreasingSeqs(i + 1, n - 1)} :
                            i \in lo..Len(Catalogue)}

Meshes == IncreasingSeqs(1, MaxTris) \ {<<>>}

\* Triangles for the construction alone, numbered on from the catalogue.
\* T7 is small and far from the others in y and z, with its barycenter at
\* x = 0; T8, T10 and T9 are small and lie in a row along x, with their
\* barycenters at x = 1, 62 and 64; T11 is long in x, with its barycenter
\* at x = 0.
FarCatalogue ==
    << [v0 |-> <<-1, -17, -19>>, v1 |-> <<0, -16, -19>>, v2 |-> <<1, -18, -19>>],
       [v0 |-> <<0, 0, 0>>, v1 |-> <<1, 1, 0>>, v2 |-> <<2, -1, 0>>],
       [v0 |-> <<63, 0, 0>>, v1 |-> <<64, 1, 0>>, v2 |-> <<65, -1, 0>>],
       [v0 |-> <<61, 0, 0>>, v1 |-> <<62, 1, 0>>, v2 |-> <<63, -1, 0>>],
       [v0 |-> <<-32, 0, 0>>, v1 |-> <<0, 1, 0>>, v2 |-> <<32, -1, 0>>] >>

\* The meshes of far triangles: a triangle in the first bin, one on the
\* boundary of the second bin or in the last bin but one, and one in the
\* last bin.
FarMeshes == {<<7, 8, 9>>, <<8, 9, 11>>, <<9, 10, 11>>, <<8, 9, 10>>,
              <<8, 9>>, <<9, 11>>}

(***************************************************************************)
(* Vectors and bounding boxes (vector3.rs, aabb.rs, triangle.rs).          *)
(***************************************************************************)
Sub(a, b) == <<a[1] - b[1], a[2] - b[2], a[3] - b[3]>>
Dot(a, b) == a[1] * b[1] + a[2] * b[2] + a[3] * b[3]
Cross(a, b) == <<a[2] * b[3] - a[3] * b[2],
                 a[3] * b[1] - a[1] * b[3],
                 a[1] * b[2] - a[2] * b[1]>>

\* Aabb::zero(): the box of a node that is not filled in yet.
AabbZero == [origin |-> <<0, 0, 0>>, far |-> <<0, 0, 0>>]

\* Aabb::enclose_points: the smallest box around a set of points.
enclose_points(points) ==
    IF points = {} THEN AabbZero
    ELSE [origin |-> <<MinOf({p[1] : p \in points}), MinOf({p[2] : p \in points}),
                       MinOf({p[3] : p \in points})>>,
          far    |-> <<MaxOf({p[1] : p \in points}), MaxOf({p[2] : p \in points}),
                       MaxOf({p[3] : p \in points})>>]

\* Aabb::enclose_aabbs: the smallest box around a set of boxes.
enclose_aabbs(aabbs) ==
    enclose_points({b.origin : b \in aabbs} \cup {b.far : b \in aabbs})

\* Aabb::area: 2 (sx sy + sy sz + sz sx).
area(aabb) ==
    LET s == Sub(aabb.far, aabb.origin)
    IN  2 * (s[1] * s[2] + s[2] * s[3] + s[3] * s[1])

\* Whether box a lies inside box b.
AabbContains(b, a) ==
    \A ax \in 1..3 : b.origin[ax] <= a.origin[ax] /\ a.far[ax] <= b.far[ax]

\* Triangle::barycenter: (v0 + v1 + v2) / 3, exact for catalogue triangles.
barycenter(tri) ==
    <<(tri.v0[1] + tri.v1[1] + tri.v2[1]) \div 3,
      (tri.v0[2] + tri.v1[2] + tri.v2[2]) \div 3,
      (tri.v0[3] + tri.v1[3] + tri.v2[3]) \div 3>>

\* The triangle at index i (zero-based) of the source mesh.
SourceTriangle(i) ==
    LET id == source_triangles[i + 1]
    IN  IF id <= Len(Catalogue) THEN Catalogue[id]
        ELSE FarCatalogue[id - Len(Catalogue)]

(***************************************************************************)
(* TriangleRef and InterimNode.  A node's triangles are held as the        *)
(* sequence of TriangleRef.index values; the aabb and barycenter of a      *)
(* reference are those from_triangle computed for that index.              *)
(***************************************************************************)
from_triangle(index) ==
    LET tri == SourceTriangle(index)
    IN  [aabb       |-> enclose_points({tri.v0, tri.v1, tri.v2}),
         barycenter |-> barycenter(tri),
         index      |-> index]

\* A from_triangle_refs with the outer box taken around the
\* barycenters instead of around the triangles' boxes.
from_triangle_refs_inner(trirefs) ==
    [outer_aabb |-> enclose_points({from_triangle(i).barycenter : i \in Range(trirefs)}),
     inner_aabb |-> enclose_points({from_triangle(i).barycenter : i \in Range(trirefs)}),
     children   |-> <<>>,
     triangles  |-> trirefs]

from_triangle_refs(trirefs) ==
    [outer_aabb |-> enclose_aabbs({from_triangle(i).aabb : i \in Range(trirefs)}),
     inner_aabb |-> enclose_points({from_triangle(i).barycenter : i \in Range(trirefs)}),
     children   |-> <<>>,
     triangles  |-> trirefs]

inner_aabb_origin_and_size(self, axis) ==
    [min  |-> self.inner_aabb.origin[axis],
     size |-> self.inner_aabb.far[axis] - self.inner_aabb.origin[axis]]

\* The bin bin_triangles pushes a triangle into.  When size is zero the
\* quotient is 0/0 = NaN, and casting NaN to usize gives nan_bin: 0 for a
\* saturating cast, a huge value (clamped to the last bin) otherwise.
bin_index(self, axis, tri, nan_bin) ==
    LET ms    == inner_aabb_origin_and_size(self, axis)
        coord == from_triangle(tri).barycenter[axis]
        index == IF ms.size = 0 THEN nan_bin
                 ELSE (NumBins * (coord - ms.min)) \div ms.size
    IN  IF index < NumBins THEN index ELSE NumBins - 1

\* bin_triangles: the 64 bins, each the triangles pushed into it, in push
\* order.  Bin b is bins[b + 1].
bin_triangles(self, axis, nan_bin) ==
    SubSeq([k \in 1..NumBins |->
               SelectSeq(self.triangles,
                         LAMBDA t : bin_index(self, axis, t, nan_bin) = k - 1)],
           1, NumBins)

\* enclose_bins of the bins lo..hi-1: the box around the non-empty ones.
enclose_bins(bins, lo, hi) ==
    enclose_aabbs({from_triangle(t).aabb :
                     t \in UNION {Range(bins[b + 1]) : b \in lo..(hi - 1)}})

\* The number of triangles in the bins lo..hi-1.
count_bins(bins, lo, hi) ==
    Cardinality(UNION {{b} \X DOMAIN bins[b + 1] : b \in lo..(hi - 1)})

are_bins_valid(bins) ==
    1 < Cardinality({b \in DOMAIN bins : bins[b] # <<>>})

(***************************************************************************)
(* TreeSurfaceAreaHeuristic.  A cost returned by aabb_cost is the f32 cost *)
(* times CostScale * area(parent_aabb), which is the same factor for every *)
(* cost one call of split compares; NaN when the parent's area is zero     *)
(* (the ratio of the areas is then 0/0).                                   *)
(***************************************************************************)
\* n * p.powf(n.log2()) for p = 0.1, times CostScale, rounded.
n_p_powf_m(n) ==
    CASE n = 1 -> 1000 [] n = 2 -> 200 [] n = 3 -> 78 [] n = 4 -> 40
      [] n = 5 -> 24   [] n = 6 -> 16  [] n = 7 -> 11 [] OTHER -> 8

aabb_cost(parent_aabb, aabb, num_tris) ==
    LET p_inv == InvIntersectionProbability
        f     == n_p_powf_m(num_tris)
        \* (2p - n p^m) / (p - 2 p^2), times CostScale
        aabb_factor == (((2 * CostScale) \div p_inv - f) * (p_inv * p_inv)) \div (p_inv - 2)
        \* n p^(m - 1), times CostScale
        tri_factor  == f * p_inv
    IN  IF area(parent_aabb) = 0 \/ num_tris = 0 THEN NaN
        ELSE AabbIntersectionCost * CostScale * area(parent_aabb)
             + area(aabb) * (AabbIntersectionCost * aabb_factor
                             + TriangleIntersectionCost * tri_factor)

tris_cost(num_tris) == num_tris * TriangleIntersectionCost

\* a < b on f32 costs: false when either is NaN.
CostLess(a, b) == a # NaN /\ b # NaN /\ a < b

\* a + b on f32 costs.
CostAdd(a, b) == IF a = NaN \/ b = NaN THEN NaN ELSE a + b
(***************************************************************************)
(* InterimNode::find_cheapest_split and InterimNode::split.                *)
(***************************************************************************)
\* left_count and right_count of find_cheapest_split for a split before
\* bin i: the source sums over left_bins for both.
left_count_at(bins, i) == count_bins(bins, 0, i)
right_count_at(bins, i) == count_bins(bins, 0, i)

\* The cost find_cheapest_split computes for splitting before bin i.
split_cost_at(self, bins, i) ==
    LET left_aabb   == enclose_bins(bins, 0, i)
        left_count  == left_count_at(bins, i)
        right_aabb  == enclose_bins(bins, i, NumBins)
        right_count == right_count_at(bins, i)
        left_cost   == aabb_cost(self.outer_aabb, left_aabb, left_count)
        right_cost  == aabb_cost(self.outer_aabb, right_aabb, right_count)
    IN  CostAdd(left_cost, right_cost)

\* What the loop `for i in first..last` ends with, given the costs it
\* computes as pairs <<cost, i>>.  It takes the cost of its first iteration,
\* and later that of an iteration whose cost is below the best so far
\* (never, when the best so far is NaN, and never a NaN): it ends with the
\* first iteration if that one's cost is NaN, and otherwise with the
\* earliest iteration that has the least cost.
cheapest_of(costs, first) ==
    LET at_first == {c \in costs : c[2] = first}
        numbers  == {c \in costs : c[1] # NaN}
        least    == MinOf({c[1] : c \in numbers})
    IN  IF costs = {}
        THEN [at |-> 0, cost |-> 0]
        ELSE IF at_first \cap numbers = {}
        THEN [at |-> first, cost |-> NaN]
        ELSE [at   |-> MinOf({c[2] : c \in {d \in numbers : d[1] = least}}),
              cost |-> least]

\* The values of i in `for i in first..last` of find_cheapest_split.
split_range(bins) ==
    LET nonempty == {b \in DOMAIN bins : bins[b] # <<>>}
        first    == (MinOf(nonempty) - 1) + 1
        last     == MaxOf(nonempty) - 1
    IN  first..(last - 1)

\* Called only when are_bins_valid(bins), so the unwraps succeed.
find_cheapest_split(self, bins) ==
    LET nonempty == {b \in DOMAIN bins : bins[b] # <<>>}
        first    == (MinOf(nonempty) - 1) + 1
    IN  With({<<split_cost_at(self, bins, i), i>> : i \in split_range(bins)},
             LAMBDA costs : cheapest_of(costs, first))

\* The body of `if InterimNode::are_bins_valid(&bins)` in split.
\* best_split_at is min + size / 64 * index; it is kept as the triple
\* (min, size, index).
take_if_cheaper(self, axis, found, best) ==
    LET ms == inner_aabb_origin_and_size(self, axis)
    IN  IF CostLess(found.cost, best.cost) \/ best.is_first
        THEN [axis |-> axis, min |-> ms.min, size |-> ms.size,
              index |-> found.at, cost |-> found.cost, is_first |-> FALSE]
        ELSE best

\* One iteration of the loop over the axes in split.
split_axis(self, nan_bin, axis, best) ==
    With(bin_triangles(self, axis, nan_bin),
         LAMBDA bins :
            IF are_bins_valid(bins)
            THEN With(find_cheapest_split(self, bins),
                      LAMBDA found : take_if_cheaper(self, axis, found, best))
            ELSE best)

\* The loop over the axes in split: the cheapest split found, is_first if
\* none was.
find_best_split(self, nan_bin) ==
    With(split_axis(self, nan_bin, Axes[1],
                    [axis |-> Axes[1], min |-> 0, size |-> 0, index |-> 0,
                     cost |-> 0, is_first |-> TRUE]),
         LAMBDA best_x :
            With(split_axis(self, nan_bin, Axes[2], best_x),
                 LAMBDA best_y : split_axis(self, nan_bin, Axes[3], best_y)))

\* A predicate that sends every triangle to the left.
split_pred_all(best, tri) == TRUE

\* tri.barycenter.get_coord(best_split_axis) <= best_split_at
split_pred(best, tri) ==
    NumBins * (from_triangle(tri).barycenter[best.axis] - best.min)
        <= best.size * best.index

\* no_split_cost <= best_split_cost.
no_split_is_not_dearer(self, best) ==
    LET no_split == tris_cost(Len(self.triangles)) * CostScale
                       * area(self.outer_aabb)
    IN  best.cost # NaN /\ no_split <= best.cost

\* no_split_cost < best_split_cost, the no-split cost brought to the scale
\* of the split cost.
no_split_is_cheaper(self, best) ==
    CostLess(tris_cost(Len(self.triangles)) * CostScale * area(self.outer_aabb),
             best.cost)

\* A split that loses the last triangle of a left child of several.
split_at_drop(self, best) ==
    LET left_tris  == SelectSeq(self.triangles, LAMBDA t : split_pred(best, t))
        right_tris == SelectSeq(self.triangles, LAMBDA t : ~split_pred(best, t))
    IN  IF best.is_first
        THEN [outcome |-> "panic"]
        ELSE IF no_split_is_cheaper(self, best)
        THEN [outcome |-> "return"]
        ELSE [outcome |-> "split",
              left    |-> from_triangle_refs(
                              IF Len(left_tris) > 1
                              THEN SubSeq(left_tris, 1, Len(left_tris) - 1)
                              ELSE left_tris),
              right   |-> from_triangle_refs(right_tris)]

\* InterimNode::split after the loop over the axes.  The outcome is
\* "return" (the node is left alone), "panic" (the assertion !is_first
\* failed) or "split" with the two children.
split_at(self, best) ==
    LET left_tris  == SelectSeq(self.triangles, LAMBDA t : split_pred(best, t))
        right_tris == SelectSeq(self.triangles, LAMBDA t : ~split_pred(best, t))
    IN  IF best.is_first
        THEN [outcome |-> "panic"]
        ELSE IF no_split_is_cheaper(self, best)
        THEN [outcome |-> "return"]
        ELSE [outcome |-> "split",
              left    |-> from_triangle_refs(left_tris),
              right   |-> from_triangle_refs(right_tris)]

\* InterimNode::split.
split(self, nan_bin) ==
    IF Len(self.triangles) <= 1
    THEN [outcome |-> "return"]
    ELSE With(find_best_split(self, nan_bin), LAMBDA best : split_at(self, best))

\* BvhNode::new()
BvhNodeNew == [aabb |-> AabbZero, index |-> 0, len |-> 0]

\* A child_slot that crystallizes both children into one slot.
child_slot_same(child_index, k) == child_index

\* The slot crystallize passes for child k (0 or 1): child_index + k.
child_slot(child_index, k) == child_index + k
(***************************************************************************)
(* Bvh::build, step by step.                                               *)
(***************************************************************************)
trav_idle == /\ ray = <<>> /\ isect0 = <<>> /\ isect = <<>> /\ stack = <<>>
             /\ pushes = <<>> /\ max_dist = <<>> /\ any_mask = <<>>

\* No patch is being rendered / render_pixels is not running / no Bvh is
\* being built: the state of the parts a specification leaves alone.
patch_idle == /\ bitmap = <<>> /\ gbuffer = <<>> /\ hdr_buffer = <<>>
              /\ workers = <<>> /\ writes = <<>>

path_idle == /\ path_pc = "idle" /\ path_ray = <<>> /\ color = <<>>
             /\ hit_emissive = <<>> /\ bounce = 0 /\ pixel_color = <<>>
             /\ texture_index = <<>>
             /\ texture_coords = <<>> /\ fresnel = <<>> /\ intersections = 0

unit_idle == call = <<>> /\ result = <<>>

bvh_idle == /\ source_triangles = <<>> /\ tree = <<>> /\ todo = <<>>
            /\ cstack = <<>> /\ nodes = <<>> /\ slot_owner = <<>>
            /\ sorted_triangles = <<>> /\ pc = "idle" /\ panic = ""
            /\ trav_idle

trav_vars == <<ray, isect0, isect, stack, pushes, max_dist, any_mask>>
built_vars == <<source_triangles, tree, todo, cstack, nodes, slot_owner,
                sorted_triangles>>

\* Bvh::build up to the call of root.split_recursive.
InitBvh ==
    /\ source_triangles \in Meshes
    /\ tree = <<from_triangle_refs([i \in 1..Len(source_triangles) |-> i - 1])>>
    /\ todo = <<1>>
    /\ cstack = <<>>
    /\ nodes = <<>>
    /\ slot_owner = <<>>
    /\ sorted_triangles = <<>>
    /\ pc = "split"
    /\ panic = ""
    /\ trav_idle
    /\ patch_idle
    /\ path_idle
    /\ unit_idle

\* One call of split_recursive: split the node, then visit its children
\* (the first child and all below it before the second).
split_recursive ==
    /\ pc = "split"
    /\ todo # <<>>
    /\ \E nan_bin \in {0, NumBins - 1} :
         \E r \in {split(tree[Head(todo)], nan_bin)} :
            LET id == Head(todo)
                n  == Len(tree)
            IN  /\ tree' = IF r.outcome = "split"
                           THEN [tree EXCEPT ![id].triangles = <<>>,
                                             ![id].children = <<n + 1, n + 2>>]
                                \o <<r.left, r.right>>
                           ELSE tree
                /\ todo' = IF r.outcome = "split"
                           THEN <<n + 1, n + 2>> \o Tail(todo)
                           ELSE IF r.outcome = "panic" THEN todo
                           ELSE Tail(todo)
                /\ pc' = IF r.outcome = "panic" THEN "panic" ELSE "split"
                /\ panic' = IF r.outcome = "panic" THEN "split: !is_first" ELSE ""
    /\ UNCHANGED <<source_triangles, cstack, nodes, slot_owner, sorted_triangles>>
    /\ UNCHANGED trav_vars
    /\ UNCHANGED renderer_vars

\* Bvh::build after split_recursive returned: the assertion on the root and
\* the allocation of the two root slots.
build ==
    /\ pc = "split"
    /\ todo = <<>>
    /\ LET root == tree[1]
           ok   == Len(root.children) = 2
       IN  /\ pc' = IF ok THEN "crystallize" ELSE "panic"
           /\ panic' = IF ok THEN "" ELSE "build: 2 == root.children.len()"
           /\ nodes' = IF ok THEN <<BvhNodeNew, BvhNodeNew>> ELSE nodes
           /\ slot_owner' = IF ok THEN <<0, 0>> ELSE slot_owner
           /\ cstack' = IF ok
                        THEN <<[node |-> root.children[1], into |-> 0,
                                child_index |-> 0, phase |-> "enter"],
                               [node |-> root.children[2], into |-> 1,
                                child_index |-> 0, phase |-> "enter"]>>
                        ELSE cstack
    /\ UNCHANGED <<source_triangles, tree, todo, sorted_triangles>>
    /\ UNCHANGED trav_vars
    /\ UNCHANGED renderer_vars

\* A leaf that starts one triangle further in the buffer.
leaf_index_after(sorted) == Len(sorted) + 1

\* sorted_triangles.len(): where the triangles of a leaf start in the buffer.
leaf_index(sorted) == Len(sorted)

\* The assertions crystallize makes on entry; "" when they all hold.
crystallize_panic(self) ==
    IF Len(nodes) % 2 # 0 THEN "crystallize: 0 == nodes.len() % 2"
    ELSE IF self.triangles = <<>> /\ Len(self.children) # 2
    THEN "crystallize: 2 == self.children.len()"
    ELSE IF self.triangles # <<>> /\ Len(self.children) # 0
    THEN "crystallize: 0 == self.children.len()"
    ELSE ""

\* A call of crystallize, up to its first recursive call (internal node) or
\* to its return (leaf).
crystallize ==
    /\ pc = "crystallize"
    /\ cstack # <<>>
    /\ Head(cstack).phase = "enter"
    /\ LET f           == Head(cstack)
           self        == tree[f.node]
           failed      == crystallize_panic(self)
           child_index == Len(nodes)
           rest        == IF failed # "" THEN cstack
                          ELSE IF self.triangles = <<>>
                          THEN <<[node |-> self.children[1],
                                  into |-> child_slot(child_index, 0),
                                  child_index |-> 0, phase |-> "enter"],
                                 [node |-> self.children[2],
                                  into |-> child_slot(child_index, 1),
                                  child_index |-> 0, phase |-> "enter"],
                                 [f EXCEPT !.child_index = child_index,
                                           !.phase = "exit"]>>
                               \o Tail(cstack)
                          ELSE Tail(cstack)
       IN  /\ panic' = failed
           /\ pc' = IF failed # "" THEN "panic"
                    ELSE IF rest = <<>> THEN "built" ELSE "crystallize"
           /\ cstack' = rest
           /\ nodes' =
                IF failed # "" THEN nodes
                ELSE IF self.triangles = <<>>
                THEN [nodes EXCEPT ![f.into + 1].aabb = self.outer_aabb]
                     \o <<BvhNodeNew, BvhNodeNew>>
                ELSE [nodes EXCEPT ![f.into + 1] =
                         [aabb  |-> self.outer_aabb,
                          index |-> leaf_index(sorted_triangles),
                          len   |-> Len(self.triangles)]]
           /\ slot_owner' =
                IF failed # "" THEN slot_owner
                ELSE IF self.triangles = <<>>
                THEN [slot_owner EXCEPT ![f.into + 1] = f.node] \o <<0, 0>>
                ELSE [slot_owner EXCEPT ![f.into + 1] = f.node]
           /\ sorted_triangles' =
                IF failed = "" /\ self.triangles # <<>>
                THEN sorted_triangles \o self.triangles
                ELSE sorted_triangles
    /\ UNCHANGED <<source_triangles, tree, todo>>
    /\ UNCHANGED trav_vars
    /\ UNCHANGED renderer_vars

\* The end of a call of crystallize on an internal node, after both
\* recursive calls returned.
crystallize_return ==
    /\ pc = "crystallize"
    /\ cstack # <<>>
    /\ Head(cstack).phase = "exit"
    /\ LET f == Head(cstack)
       IN  nodes' = [nodes EXCEPT ![f.into + 1].index = f.child_index,
                                  ![f.into + 1].len = 0]
    /\ cstack' = Tail(cstack)
    /\ pc' = IF Tail(cstack) = <<>> THEN "built" ELSE "crystallize"
    /\ UNCHANGED <<source_triangles, tree, todo, slot_owner, sorted_triangles, panic>>
    /\ UNCHANGED trav_vars
    /\ UNCHANGED renderer_vars

(***************************************************************************)
(* Aabb::intersect and Triangle::intersect, lane by lane.  A ray direction *)
(* has components +1 or -1, so its reciprocal is the direction itself.     *)
(***************************************************************************)
Sign(x) == IF x > 0 THEN 1 ELSE IF x < 0 THEN -1 ELSE 0

\* The point at distance t along ray r.
RayAt(r, t) == <<r.origin[1] + t * r.direction[1],
                 r.origin[2] + t * r.direction[2],
                 r.origin[3] + t * r.direction[3]>>

\* Aabb::intersect on one lane: the near-slab distance and the hit mask.
aabb_intersect_lane(aabb, r) ==
    LET t0 == [ax \in 1..3 |-> (aabb.origin[ax] - r.origin[ax]) * r.direction[ax]]
        t1 == [ax \in 1..3 |-> (aabb.far[ax] - r.origin[ax]) * r.direction[ax]]
        t_near == MaxOf({Min(t0[ax], t1[ax]) : ax \in 1..3})
        t_far  == MinOf({Max(t0[ax], t1[ax]) : ax \in 1..3})
    IN  [distance |-> t_near, mask |-> t_near <= t_far /\ t_far >= 0]

\* Aabb::intersect on a packet.
aabb_intersect(aabb, mray) ==
    [lane \in Lanes |-> aabb_intersect_lane(aabb, mray[lane])]

\* MAabbIntersection::any
any(aabb_isect) == \E lane \in Lanes : aabb_isect[lane].mask

\* MAabbIntersection::is_further_away_than
is_further_away_than(aabb_isect, distance) ==
    \A lane \in Lanes : aabb_isect[lane].distance > distance[lane]

\* Triangle::intersect on one lane (Moeller-Trumbore).  With det the
\* determinant, u = su / det, v = sv / det and t = st / det; the signs are
\* compared without dividing, and t is an integer.
triangle_intersect_lane(tri, r, hit) ==
    LET e1  == Sub(tri.v1, tri.v0)
        e2  == Sub(tri.v2, tri.v0)
        h   == Cross(r.direction, e2)
        det == Dot(e1, h)
        s   == Sub(r.origin, tri.v0)
        q   == Cross(s, e1)
        su  == Sign(det) * Dot(s, h)
        sv  == Sign(det) * Dot(r.direction, q)
        st  == Sign(det) * Dot(e2, q)
        t   == st \div (Sign(det) * det)
        n   == Cross(e1, e2)
        valid == /\ det # 0
                 /\ st > 0
                 /\ su >= 0 /\ sv >= 0 /\ su + sv <= Sign(det) * det
                 /\ t < hit.distance
    IN  IF valid
        THEN [position |-> RayAt(r, t),
              normal   |-> <<Sign(n[1]), Sign(n[2]), Sign(n[3])>>,
              distance |-> t]
        ELSE hit

\* Triangle::intersect on a packet.
triangle_intersect(tri, mray, misect) ==
    [lane \in Lanes |-> triangle_intersect_lane(tri, mray[lane], misect[lane])]

\* A loop over the triangles that tests the first one only, and against a
\* far intersection instead of the one accumulated.
intersect_triangles_afresh(from, to, mray, misect) ==
    IF from >= to THEN misect
    ELSE triangle_intersect(SourceTriangle(sorted_triangles[from + 1]), mray,
                            [lane \in Lanes |->
                                [misect[lane] EXCEPT !.distance = 1000]])

\* isect = triangle.intersect(ray, isect) for the triangles at the buffer
\* positions from..to-1, in order.
RECURSIVE intersect_triangles(_, _, _, _)
intersect_triangles(from, to, mray, misect) ==
    IF from >= to THEN misect
    ELSE intersect_triangles(from + 1, to, mray,
             triangle_intersect(SourceTriangle(sorted_triangles[from + 1]),
                                mray, misect))

\* The brute-force scan: every triangle of the buffer, starting from misect.
brute_force(mray, misect) ==
    intersect_triangles(0, Len(sorted_triangles), mray, misect)

\* The distances of a packet intersection.
distance_of(misect) == [lane \in Lanes |-> misect[lane].distance]
(***************************************************************************)
(* The packets traced through a built BVH.                                 *)
(***************************************************************************)
\* From below the origin through the vertex T1, T2 and T6 share, then T4;
\* into the inside of T3; through the box of T2 next to the triangle; into
\* the inside of T5; from beyond T4 back through the origin.
Rays ==
    { [origin |-> <<-1, -1, -1>>, direction |-> <<1, 1, 1>>],
      [origin |-> <<2, -2, -1>>,  direction |-> <<1, 1, 1>>],
      [origin |-> <<1, -1, 1>>,   direction |-> <<1, 1, 1>>],
      [origin |-> <<1, 9, 0>>,    direction |-> <<-1, 1, 1>>],
      [origin |-> <<13, 13, 13>>, direction |-> <<-1, -1, -1>> ] }

Packets == [Lanes -> Rays]

\* The distances of the intersection handed to intersect_nearest, and the
\* values of max_dist handed to intersect_any.
InitialDistances == {2, 100}
MaxDists == {2, 3}

\* The intersection intersect_any starts from (and the far-away one a
\* caller of intersect_nearest starts from).
initial_isect(mray, dist) ==
    [lane \in Lanes |-> [position |-> RayAt(mray[lane], dist[lane]),
                         normal   |-> mray[lane].direction,
                         distance |-> dist[lane]]]

\* A traversal that visits the second node only when the first is missed.
push_pair_else(stk, mray, slot_0, slot_1) ==
    LET isect_0 == aabb_intersect(nodes[slot_0 + 1].aabb, mray)
        isect_1 == aabb_intersect(nodes[slot_1 + 1].aabb, mray)
    IN  IF any(isect_0)
        THEN Append(stk, [aabb_isect |-> isect_0, node |-> slot_0])
        ELSE IF any(isect_1)
        THEN Append(stk, [aabb_isect |-> isect_1, node |-> slot_1])
        ELSE stk

\* A traversal that pushes the second node twice.
push_pair_twice(stk, mray, slot_0, slot_1) ==
    LET isect_0 == aabb_intersect(nodes[slot_0 + 1].aabb, mray)
        isect_1 == aabb_intersect(nodes[slot_1 + 1].aabb, mray)
        stk_0   == IF any(isect_0)
                   THEN Append(stk, [aabb_isect |-> isect_0, node |-> slot_0])
                   ELSE stk
    IN  IF any(isect_1)
        THEN stk_0 \o <<[aabb_isect |-> isect_1, node |-> slot_1],
                        [aabb_isect |-> isect_1, node |-> slot_1]>>
        ELSE stk_0

\* stack.push((isect, node)) for each of the two nodes the packet hits.
push_pair(stk, mray, slot_0, slot_1) ==
    LET isect_0 == aabb_intersect(nodes[slot_0 + 1].aabb, mray)
        isect_1 == aabb_intersect(nodes[slot_1 + 1].aabb, mray)
        stk_0   == IF any(isect_0)
                   THEN Append(stk, [aabb_isect |-> isect_0, node |-> slot_0])
                   ELSE stk
    IN  IF any(isect_1)
        THEN Append(stk_0, [aabb_isect |-> isect_1, node |-> slot_1])
        ELSE stk_0

\* The history of pushes after the entries stk holds beyond rest were
\* pushed.
count_pushes(counts, rest, stk) ==
    [slot \in DOMAIN counts |->
        counts[slot] + Cardinality({k \in (Len(rest) + 1)..Len(stk) :
                                       stk[k].node + 1 = slot})]

\* intersect_nearest up to its loop.
intersect_nearest ==
    /\ pc = "built"
    /\ \E mray \in Packets, dist \in InitialDistances :
         /\ ray' = mray
         /\ isect0' = initial_isect(mray, [lane \in Lanes |-> dist])
         /\ isect' = isect0'
         /\ stack' = push_pair(<<>>, mray, 0, 1)
         /\ pushes' = count_pushes([slot \in DOMAIN nodes |-> 0], <<>>, stack')
    /\ pc' = "nearest"
    /\ UNCHANGED <<max_dist, any_mask, panic>>
    /\ UNCHANGED built_vars
    /\ UNCHANGED renderer_vars

\* intersect_any up to the loop of the intersect_nearest it calls.
intersect_any ==
    /\ pc = "built"
    /\ \E mray \in Packets, dist \in [Lanes -> MaxDists] :
         /\ ray' = mray
         /\ max_dist' = dist
         /\ isect0' = initial_isect(mray, dist)
         /\ isect' = isect0'
         /\ stack' = push_pair(<<>>, mray, 0, 1)
         /\ pushes' = count_pushes([slot \in DOMAIN nodes |-> 0], <<>>, stack')
    /\ pc' = "nearest"
    /\ UNCHANGED <<any_mask, panic>>
    /\ UNCHANGED built_vars
    /\ UNCHANGED renderer_vars

\* A pop that leaves the entry on the stack.
pop_none(stk) == stk

\* What stack.pop() leaves on the stack.
pop(stk) == SubSeq(stk, 1, Len(stk) - 1)

\* One iteration of `while let Some((aabb_isect, node)) = stack.pop()`.
intersect_nearest_loop ==
    /\ pc = "nearest"
    /\ stack # <<>>
    /\ LET top    == stack[Len(stack)]
           popped == pop(stack)
           node   == nodes[top.node + 1]
       IN  /\ IF is_further_away_than(top.aabb_isect, distance_of(isect))
              THEN /\ stack' = popped
                   /\ isect' = isect
              ELSE IF node.len = 0
              THEN /\ stack' = push_pair(popped, ray, node.index, node.index + 1)
                   /\ isect' = isect
              ELSE /\ stack' = popped
                   /\ isect' = intersect_triangles(node.index,
                                                   node.index + node.len,
                                                   ray, isect)
           /\ pushes' = count_pushes(pushes, popped, stack')
    /\ UNCHANGED <<pc, ray, isect0, max_dist, any_mask, panic>>
    /\ UNCHANGED built_vars
    /\ UNCHANGED renderer_vars

\* The return of intersect_nearest to a caller other than intersect_any.
intersect_nearest_return ==
    /\ pc = "nearest"
    /\ stack = <<>>
    /\ max_dist = <<>>
    /\ pc' = "returned"
    /\ UNCHANGED <<ray, isect0, isect, stack, pushes, max_dist, any_mask, panic>>
    /\ UNCHANGED built_vars
    /\ UNCHANGED renderer_vars

\* The return of intersect_nearest to intersect_any, and the mask that
\* intersect_any returns: isect.distance.geq(max_dist - Mf32::epsilon()).
intersect_any_return ==
    /\ pc = "nearest"
    /\ stack = <<>>
    /\ max_dist # <<>>
    /\ any_mask' = [lane \in Lanes |->
                       isect[lane].distance >= max_dist[lane] - Epsilon]
    /\ pc' = "returned"
    /\ UNCHANGED <<ray, isect0, isect, stack, pushes, max_dist, panic>>
    /\ UNCHANGED built_vars
    /\ UNCHANGED renderer_vars

NextBvh ==
    \/ split_recursive
    \/ build
    \/ crystallize
    \/ crystallize_return
    \/ intersect_nearest
    \/ intersect_any
    \/ intersect_nearest_loop
    \/ intersect_nearest_return
    \/ intersect_any_return

SpecBvh == InitBvh /\ [][NextBvh]_vars

\* Bvh::build followed by one call of intersect_nearest, which runs: when
\* its loop can make an iteration, or the function can return, it does.
NextNearest ==
    \/ split_recursive
    \/ build
    \/ crystallize
    \/ crystallize_return
    \/ intersect_nearest
    \/ intersect_nearest_loop
    \/ intersect_nearest_return

SpecNearestLive ==
    /\ InitBvh
    /\ [][NextNearest]_vars
    /\ WF_vars(intersect_nearest_loop \/ intersect_nearest_return)

(***************************************************************************)
(* intersect_nearest with its pending nodes processed in any order: the    *)
(* loop takes any entry of the stack instead of the last one pushed, which *)
(* covers every order of pushing and popping the nodes the packet hits.    *)
(***************************************************************************)
\* A loop body that intersects the triangles of a leaf with the
\* intersection intersect_nearest was given, not with the best so far.
visit_node_stale(entry, rest, misect) ==
    LET node == nodes[entry.node + 1]
    IN  IF is_further_away_than(entry.aabb_isect, distance_of(misect))
        THEN [stack |-> rest, isect |-> misect]
        ELSE IF node.len = 0
        THEN [stack |-> push_pair(rest, ray, node.index, node.index + 1),
              isect |-> misect]
        ELSE [stack |-> rest,
              isect |-> intersect_triangles(node.index, node.index + node.len,
                                            ray, isect0)]

\* The body of the loop of intersect_nearest for the entry taken off the
\* stack: the stack and the intersection it leaves.
visit_node(entry, rest, misect) ==
    LET node == nodes[entry.node + 1]
    IN  IF is_further_away_than(entry.aabb_isect, distance_of(misect))
        THEN [stack |-> rest, isect |-> misect]
        ELSE IF node.len = 0
        THEN [stack |-> push_pair(rest, ray, node.index, node.index + 1),
              isect |-> misect]
        ELSE [stack |-> rest,
              isect |-> intersect_triangles(node.index, node.index + node.len,
                                            ray, misect)]

\* intersect_nearest up to its loop.
intersect_nearest_reordered ==
    /\ pc = "built"
    /\ \E mray \in Packets, dist \in InitialDistances :
         /\ ray' = mray
         /\ isect0' = initial_isect(mray, [lane \in Lanes |-> dist])
         /\ isect' = isect0'
         /\ stack' = push_pair(<<>>, mray, 0, 1)
         /\ pushes' = count_pushes([slot \in DOMAIN nodes |-> 0], <<>>, stack')
    /\ pc' = "reordered"
    /\ UNCHANGED <<max_dist, any_mask, panic>>
    /\ UNCHANGED built_vars
    /\ UNCHANGED renderer_vars

\* One iteration of the loop, on any pending entry.
intersect_nearest_loop_reordered ==
    /\ pc = "reordered"
    /\ stack # <<>>
    /\ \E k \in 1..Len(stack) :
         \E r \in {visit_node(stack[k],
                               SubSeq(stack, 1, k - 1)
                                  \o SubSeq(stack, k + 1, Len(stack)),
                               isect)} :
            /\ stack' = r.stack
            /\ isect' = r.isect
            /\ pushes' = count_pushes(pushes,
                                      SubSeq(stack, 1, k - 1)
                                         \o SubSeq(stack, k + 1, Len(stack)),
                                      stack')
    /\ UNCHANGED <<pc, ray, isect0, max_dist, any_mask, panic>>
    /\ UNCHANGED built_vars
    /\ UNCHANGED renderer_vars

intersect_nearest_return_reordered ==
    /\ pc = "reordered"
    /\ stack = <<>>
    /\ pc' = "returned"
    /\ UNCHANGED <<ray, isect0, isect, stack, pushes, max_dist, any_mask, panic>>
    /\ UNCHANGED built_vars
    /\ UNCHANGED renderer_vars

NextOrder ==
    \/ split_recursive
    \/ build
    \/ crystallize
    \/ crystallize_return
    \/ intersect_nearest_reordered
    \/ intersect_nearest_loop_reordered
    \/ intersect_nearest_return_reordered

SpecOrder == InitBvh /\ [][NextOrder]_vars

\* C17: whatever the order in which the nodes the packet hits are taken
\* off the stack, intersect_nearest returns on every lane the nearest
\* distance: that of the scan of all the triangles from isect0, which is
\* the same for every order.
C17_AnyOrderSameDistance ==
    (pc = "returned" /\ max_dist = <<>>) =>
        distance_of(isect) = distance_of(brute_force(ray, isect0))

\* A hit was found below the first root node while the second root node,
\* which the loop as written takes first, is still on the stack.
C17_Witness ==
    /\ pc = "reordered"
    /\ \E k \in 1..Len(stack) : stack[k].node = 1
    /\ \E lane \in Lanes : isect[lane].distance < isect0[lane].distance

(***************************************************************************)
(* InterimNode::split after its loop over the axes, on the root of a mesh  *)
(* with the split that loop found, for any cost of that split near the     *)
(* no-split cost (the comparison is on f32 values, which can be equal).    *)
(***************************************************************************)
\* heuristic.tris_cost(self.triangles.len()), at the scale of a split cost.
no_split_cost(self) ==
    tris_cost(Len(self.triangles)) * CostScale * area(self.outer_aabb)

\* The costs the best split may have: below, equal to and above the
\* no-split cost, or NaN.
SplitCosts(self) ==
    {no_split_cost(self) - 1, no_split_cost(self), no_split_cost(self) + 1, NaN}

\* split is about to compare the costs: todo holds the call, with the
\* best split of its loop.
InitSplit ==
    /\ source_triangles \in {m \in Meshes : Len(m) > 1}
    /\ tree = <<from_triangle_refs([i \in 1..Len(source_triangles) |-> i - 1])>>
    /\ \E nan_bin \in {0, NumBins - 1} :
         \E best \in {find_best_split(tree[1], nan_bin)} :
            \E c \in SplitCosts(tree[1]) :
               todo = <<[id |-> 1, best |-> [best EXCEPT !.cost = c]]>>
    /\ cstack = <<>>
    /\ nodes = <<>>
    /\ slot_owner = <<>>
    /\ sorted_triangles = <<>>
    /\ pc = "compare"
    /\ panic = ""
    /\ trav_idle
    /\ patch_idle
    /\ path_idle
    /\ unit_idle

\* The rest of split: the assertion, the comparison of the costs and the
\* partition.
split_compare ==
    /\ pc = "compare"
    /\ \E r \in {split_at(tree[Head(todo).id], Head(todo).best)} :
         LET id == Head(todo).id
             n  == Len(tree)
         IN  /\ tree' = IF r.outcome = "split"
                        THEN [tree EXCEPT ![id].triangles = <<>>,
                                          ![id].children = <<n + 1, n + 2>>]
                             \o <<r.left, r.right>>
                        ELSE tree
             /\ pc' = IF r.outcome = "panic" THEN "panic" ELSE "compared"
             /\ panic' = IF r.outcome = "panic" THEN "split: !is_first" ELSE ""
    /\ UNCHANGED <<source_triangles, todo, cstack, nodes, slot_owner,
                   sorted_triangles>>
    /\ UNCHANGED trav_vars
    /\ UNCHANGED renderer_vars

NextSplit == split_compare

SpecSplit == InitSplit /\ [][NextSplit]_vars

\* C16, as the code has it: split leaves the node a leaf exactly when the
\* no-split cost is strictly smaller than the cost of the cheapest split;
\* with equal costs, and with a split cost that is NaN, it splits the node.
C16_LeafIffNoSplitCheaper ==
    pc = "compared" =>
        \E self \in {tree[Head(todo).id]} :
            (self.children = <<>>)
               <=> CostLess(tris_cost(Len(source_triangles)) * CostScale
                               * area(self.outer_aabb),
                            Head(todo).best.cost)

\* A node of three triangles was split at a cost equal to the no-split
\* cost.
C16_Witness ==
    /\ pc = "compared"
    /\ Len(source_triangles) = 3
    /\ Head(todo).best.cost = tris_cost(3) * CostScale * area(tree[1].outer_aabb)
    /\ tree[1].children # <<>>
    /\ tree[tree[1].children[1]].triangles # <<>>
    /\ tree[tree[1].children[2]].triangles # <<>>

\* C16: split leaves the node a leaf whenever the cost of the cheapest
\* split is not smaller than the no-split cost, the case of equal costs
\* included, and splits it only when the split cost is strictly smaller.
C16_LeafUnlessStrictlyCheaper ==
    pc = "compared" =>
        \E self \in {tree[Head(todo).id]} :
            (self.children # <<>>)
               <=> CostLess(Head(todo).best.cost,
                            tris_cost(Len(source_triangles)) * CostScale
                               * area(self.outer_aabb))
(***************************************************************************)
(* InterimNode::split on the root of a mesh, one iteration of its loop     *)
(* over the axes at a time, with what find_cheapest_split computed in each *)
(* kept in result.                                                         *)
(***************************************************************************)
\* The root node Bvh::build makes of the mesh.
root_node == from_triangle_refs([i \in 1..Len(source_triangles) |-> i - 1])

InitBins ==
    /\ source_triangles \in {m \in Meshes : Len(m) > 1} \cup FarMeshes
    /\ tree = <<root_node>>
    /\ todo = <<1>>
    /\ cstack = <<>>
    /\ nodes = <<>>
    /\ slot_owner = <<>>
    /\ sorted_triangles = <<>>
    /\ pc = "bins"
    /\ panic = ""
    /\ trav_idle
    /\ patch_idle
    /\ path_idle
    /\ \E nan_bin \in {0, NumBins - 1} :
         call = [fn |-> "split", nan_bin |-> nan_bin, axis |-> 1,
                 best |-> [axis |-> Axes[1], min |-> 0, size |-> 0, index |-> 0,
                           cost |-> 0, is_first |-> TRUE]]
    /\ result = <<>>

\* What find_cheapest_split does with the bins of an axis: the splits it
\* evaluates, with the counts and the cost of each, and what it returns.
cheapest_split_record(self, axis, bins) ==
    [axis      |-> axis,
     valid     |-> TRUE,
     evaluated |-> {[i           |-> i,
                     left_count  |-> left_count_at(bins, i),
                     right_count |-> right_count_at(bins, i),
                     cost        |-> split_cost_at(self, bins, i)] :
                    i \in split_range(bins)},
     found     |-> find_cheapest_split(self, bins)]

\* One iteration of `for &axis in &[Axis::X, Axis::Y, Axis::Z]` in split.
split_axis_step ==
    /\ pc = "bins"
    /\ call.axis <= 3
    /\ \E bins \in {bin_triangles(tree[1], Axes[call.axis], call.nan_bin)} :
         /\ result' = Append(result,
                IF are_bins_valid(bins)
                THEN cheapest_split_record(tree[1], Axes[call.axis], bins)
                ELSE [axis |-> Axes[call.axis], valid |-> FALSE])
         /\ call' = [call EXCEPT
                        !.axis = call.axis + 1,
                        !.best = split_axis(tree[1], call.nan_bin,
                                            Axes[call.axis], call.best)]
    /\ UNCHANGED bvh_vars
    /\ UNCHANGED <<patch_vars, path_vars>>

\* split after the loop over the axes: the assertion, the comparison of
\* the costs and the partition.
split_partition ==
    /\ pc = "bins"
    /\ call.axis = 4
    /\ \E r \in {split_at(tree[1], call.best)} :
         /\ tree' = IF r.outcome = "split"
                    THEN [tree EXCEPT ![1].triangles = <<>>,
                                      ![1].children = <<2, 3>>]
                         \o <<r.left, r.right>>
                    ELSE tree
         /\ pc' = IF r.outcome = "panic" THEN "panic" ELSE "partitioned"
         /\ panic' = IF r.outcome = "panic" THEN "split: !is_first" ELSE ""
    /\ UNCHANGED <<source_triangles, todo, cstack, nodes, slot_owner,
                   sorted_triangles>>
    /\ UNCHANGED trav_vars
    /\ UNCHANGED renderer_vars

NextBins == split_axis_step \/ split_partition

SpecBins == InitBins /\ [][NextBins]_vars

(***************************************************************************)
(* Properties of the traversal.                                            *)
(***************************************************************************)
\* What one lane can get from a single triangle of the buffer, or keep.
lane_candidates(lane) ==
    {isect0[lane]} \cup
    {triangle_intersect_lane(SourceTriangle(sorted_triangles[k]),
                             ray[lane], isect0[lane]) :
        k \in 1..Len(sorted_triangles)}

\* C1, as stated: when intersect_nearest has returned, its result is on
\* every lane the hit (distance, position and normal) that the brute-force
\* scan of the triangle buffer from isect0 gives.
C1_SameHitAsBruteForce ==
    pc = "returned" => isect = brute_force(ray, isect0)

\* C1, amended: when intersect_nearest has returned, its result has on
\* every lane the distance and the position of the brute-force scan from
\* isect0, and it is the intersection with one triangle of the buffer (or
\* isect0 itself), so that its normal is that of a triangle hit at the
\* nearest distance, which need not be the triangle the scan ends with.
C1_SameDistanceAsBruteForce ==
    pc = "returned" =>
        \A lane \in Lanes :
            /\ isect[lane].distance = brute_force(ray, isect0)[lane].distance
            /\ isect[lane].position = brute_force(ray, isect0)[lane].position
            /\ isect[lane] \in lane_candidates(lane)

\* A traversal of a BVH with an internal node has returned a hit closer
\* than isect0 on one lane and none on another.
C1_Witness ==
    /\ pc = "returned"
    /\ max_dist = <<>>
    /\ Len(nodes) > 2
    /\ \E lane \in Lanes : isect[lane].distance < isect0[lane].distance
    /\ \E lane \in Lanes : isect[lane] = isect0[lane]

\* The least distance at which a lane hits a triangle of the buffer is at
\* most bound.
hit_within(lane, bound) ==
    \E k \in 1..Len(sorted_triangles) :
        triangle_intersect_lane(SourceTriangle(sorted_triangles[k]), ray[lane],
                                [position |-> ray[lane].origin,
                                 normal   |-> ray[lane].direction,
                                 distance |-> bound + 1]).distance <= bound

\* C2: when intersect_any has returned, its mask is true on a lane exactly
\* if the brute-force nearest hit distance of the lane is at most
\* max_dist - epsilon (true means that something is hit before max_dist).
C2_MaskTrueIffHit ==
    (pc = "returned" /\ any_mask # <<>>) =>
        \A lane \in Lanes :
            any_mask[lane] <=> hit_within(lane, max_dist[lane] - Epsilon)

(***************************************************************************)
(* Properties of the built BVH.                                            *)
(***************************************************************************)
\* A slot of nodes (zero-based) that crystallize has finished with.
crystallized(slot) ==
    /\ slot_owner[slot + 1] # 0
    /\ \A k \in DOMAIN cstack : cstack[k].into # slot

\* C3: the number of nodes is even at every point during and after
\* crystallize, no two slots hold the same interim node, and a finished
\* slot that holds an internal interim node has len = 0, and index and
\* index + 1 are the slots that hold that node's first and second child.
C3_SiblingsAdjacent ==
    /\ Len(nodes) % 2 = 0
    /\ \A s, t \in DOMAIN slot_owner :
          (slot_owner[s] = slot_owner[t] /\ slot_owner[s] # 0) => s = t
    /\ \A slot \in 0..(Len(nodes) - 1) :
          (crystallized(slot) /\ tree[slot_owner[slot + 1]].triangles = <<>>) =>
              LET node == nodes[slot + 1]
                  self == tree[slot_owner[slot + 1]]
              IN  /\ node.len = 0
                  /\ node.index + 1 < Len(nodes)
                  /\ crystallized(node.index) /\ crystallized(node.index + 1)
                  /\ slot_owner[node.index + 1] = self.children[1]
                  /\ slot_owner[node.index + 2] = self.children[2]

\* Bvh::build has returned a BVH with an internal node.
C3_Witness ==
    /\ pc = "built"
    /\ \E slot \in 0..(Len(nodes) - 1) :
          /\ nodes[slot + 1].len = 0
          /\ tree[slot_owner[slot + 1]].triangles = <<>>

\* The slots of the subtree of a slot, the slot included.
RECURSIVE subtree(_)
subtree(slot) ==
    IF nodes[slot + 1].len = 0
    THEN {slot} \cup subtree(nodes[slot + 1].index)
                \cup subtree(nodes[slot + 1].index + 1)
    ELSE {slot}

\* The triangles (indices into source_triangles) in the leaves below a slot.
triangles_below(slot) ==
    UNION {{sorted_triangles[i + 1] :
              i \in nodes[s + 1].index..(nodes[s + 1].index + nodes[s + 1].len - 1)} :
           s \in {l \in subtree(slot) : nodes[l + 1].len # 0}}

\* C4: in a built BVH, the bounding box of every triangle stored in a leaf
\* lies in the AABB of that leaf and in the AABB of every ancestor of it.
C4_TrianglesInsideAabbs ==
    pc \in {"built", "nearest", "returned"} =>
        \A slot \in 0..(Len(nodes) - 1) :
            \A t \in triangles_below(slot) :
                AabbContains(nodes[slot + 1].aabb, from_triangle(t).aabb)

\* A built BVH has a leaf with triangles below an internal node.
C4_Witness ==
    /\ pc = "built"
    /\ \E slot \in 0..(Len(nodes) - 1) :
          /\ nodes[slot + 1].len = 0
          /\ triangles_below(slot) # {}

\* C5: when split_recursive has returned from the root, the root has two
\* children, so that the assertion of Bvh::build holds.
C5_RootIsSplit ==
    (pc = "split" /\ todo = <<>>) => Len(tree[1].children) = 2

\* A node of two or more triangles whose barycenters are all the same.
identical_barycenters(self) ==
    /\ Len(self.triangles) >= 2
    /\ self.inner_aabb.origin = self.inner_aabb.far

\* C6: split, called on a node of two or more triangles with identical
\* barycenters, leaves the node a leaf, and the construction goes on.
C6_DegenerateNodeIsLeaf ==
    [][(pc = "split" /\ todo # <<>> /\ identical_barycenters(tree[Head(todo)]))
         => (pc' = "split" /\ tree' = tree /\ todo' = Tail(todo))]_vars

(***************************************************************************)
(* renderer.rs: render_pixels.  A color channel is an integer number of    *)
(* 1/ColorOne, a sky channel an integer number of 1/SkyOne; the scene and  *)
(* the BRDF are arbitrary: each bounce may hit any material on any lane,   *)
(* and send an active lane anywhere with any of the color modulations.     *)
(* A mask is a lane -> BOOLEAN, TRUE for a sign bit of 1.                  *)
(***************************************************************************)
\* A loop of one more bounce.
max_bounces_more == 2 * 3

max_bounces == 5
ColorOne == 32      \* 1.0 as a color channel: 2^max_bounces
SkyOne == 16        \* 1.0 as a sky channel
Channels == 1..3

\* The z components a ray direction takes: down, level, up.
Directions == {-1, 0, 1}
\* What continue_path_brdf samples for a lane: the origin of the new ray
\* (a code of the surface point; the camera is at 0), a direction and a
\* color modulation in halves (white, or a tinted grey).
BrdfSamples == {[origin |-> 1, direction |-> 1, color_mod |-> <<2, 2, 2>>],
                [origin |-> 2, direction |-> 0, color_mod |-> <<1, 2, 1>>],
                [origin |-> 3, direction |-> -1, color_mod |-> <<1, 2, 1>>]}
\* What an iteration of render_pixels obtains for the G-buffer: the texture
\* index of the material hit (MMaterial::get_texture), the texture
\* coordinates of the intersection, and the Fresnel factor its continue_path
\* returns.  There are two surfaces, told apart by what the first lane
\* hit: surface t has texture t, coordinates (t, lane) and factor t.
texture_of(material) ==
    LET t == IF material[1] THEN 1 ELSE 2
    IN  [tex_index  |-> [lane \in Lanes |-> t],
         tex_coords |-> [lane \in Lanes |-> <<t, lane>>],
         fr         |-> [lane \in Lanes |-> t]]
Mi32Zero == [lane \in Lanes |-> 0]

MVector3Zero == [lane \in Lanes |-> <<0, 0, 0>>]
MVector3White == [lane \in Lanes |-> <<ColorOne, ColorOne, ColorOne>>]

\* A pick that takes other where the sign bit is 0.
pick_unset(self, other, mask) ==
    [lane \in Lanes |-> IF mask[lane] THEN self[lane] ELSE other[lane]]

\* Mf32::pick, MVector3::pick: the component of self if the sign bit in
\* the mask is 0, otherwise the component of other.
pick(self, other, mask) ==
    [lane \in Lanes |-> IF mask[lane] THEN other[lane] ELSE self[lane]]

all_sign_bits_negative(mask) == \A lane \in Lanes : mask[lane]

\* sky_intensity, of the direction's z component (dot with up).
sky_intensity(ray_direction) ==
    [lane \in Lanes |->
        LET d == (ray_direction[lane] * SkyOne) \div 2 + SkyOne \div 2
            r == d
            g == (d * d) \div SkyOne
            b == (d * ((d * d) \div SkyOne)) \div SkyOne
        IN  <<r \div 2 + SkyOne \div 2, g \div 2 + SkyOne \div 2,
              b \div 2 + SkyOne \div 2>>]

\* MVector3::mul_coords with a modulation in halves / with a sky color.
mul_coords_mod(c, color_mod) ==
    [lane \in Lanes |-> [ch \in Channels |->
        (c[lane][ch] * color_mod[lane][ch]) \div 2]]

mul_coords_sky(c, emission) ==
    [lane \in Lanes |-> [ch \in Channels |-> c[lane][ch] * emission[lane][ch]]]

\* A continue_path whose new mask is the material hit alone.
continue_path_forget(material, mray, brdf) ==
    LET white     == [lane \in Lanes |-> <<2, 2, 2>>]
        brdf_org  == [lane \in Lanes |-> brdf[lane].origin]
        brdf_dir  == [lane \in Lanes |-> brdf[lane].direction]
        color_mod == [lane \in Lanes |-> brdf[lane].color_mod]
    IN  [ray |-> [origin    |-> pick(brdf_org, mray.origin, material),
                  direction |-> pick(brdf_dir, mray.direction, material),
                  active    |-> material],
         color_mod |-> pick(color_mod, white, material)]

\* A continue_path that gives every lane the sampled ray.
continue_path_moves(material, mray, brdf) ==
    LET active    == [lane \in Lanes |-> mray.active[lane] \/ material[lane]]
        white     == [lane \in Lanes |-> <<2, 2, 2>>]
        brdf_org  == [lane \in Lanes |-> brdf[lane].origin]
        brdf_dir  == [lane \in Lanes |-> brdf[lane].direction]
        color_mod == [lane \in Lanes |-> brdf[lane].color_mod]
    IN  [ray |-> [origin    |-> brdf_org,
                  direction |-> brdf_dir,
                  active    |-> active],
         color_mod |-> pick(color_mod, white, active)]

\* continue_path: brdf is what continue_path_brdf sampled.
continue_path(material, mray, brdf) ==
    LET active    == [lane \in Lanes |-> mray.active[lane] \/ material[lane]]
        white     == [lane \in Lanes |-> <<2, 2, 2>>]
        brdf_org  == [lane \in Lanes |-> brdf[lane].origin]
        brdf_dir  == [lane \in Lanes |-> brdf[lane].direction]
        color_mod == [lane \in Lanes |-> brdf[lane].color_mod]
    IN  [ray |-> [origin    |-> pick(brdf_org, mray.origin, active),
                  direction |-> pick(brdf_dir, mray.direction, active),
                  active    |-> active],
         color_mod |-> pick(color_mod, white, active)]

\* A save in every iteration.
save_every(i, saved, value) == value

\* render_pixels' `if i == 0 { ... }`: what a variable saved for the
\* G-buffer holds after iteration i.
save_first(i, saved, value) == IF i = 0 THEN value ELSE saved

\* render_pixels up to its loop: the camera ray (active on every lane), a
\* white color, no emissive hit yet.
render_pixels ==
    /\ path_pc = "idle"
    /\ \E dir \in [Lanes -> Directions] :
         path_ray' = [origin    |-> [lane \in Lanes |-> 0],
                      direction |-> dir,
                      active    |-> [lane \in Lanes |-> FALSE]]
    /\ color' = MVector3White
    /\ hit_emissive' = [lane \in Lanes |-> FALSE]
    /\ texture_index' = Mi32Zero
    /\ texture_coords' = [lane \in Lanes |-> <<0, 0>>]
    /\ fresnel' = Mi32Zero
    /\ bounce' = 0
    /\ path_pc' = "loop"
    /\ UNCHANGED <<pixel_color, intersections>>
    /\ UNCHANGED <<bvh_vars, patch_vars, unit_vars>>

\* The body of the loop over the bounces, for the material that
\* scene.intersect_nearest returned.
render_pixels_iteration(material) ==
    /\ intersections' = intersections + 1
    /\ hit_emissive' = material
    /\ IF all_sign_bits_negative(material)
       THEN /\ path_pc' = "emission"
            /\ UNCHANGED <<path_ray, color, bounce, texture_index,
                           texture_coords, fresnel>>
       ELSE \E brdf \in [Lanes -> BrdfSamples] :
              \* the sample of a lane that is inactive is not used
              /\ \A lane \in Lanes :
                    (path_ray.active[lane] \/ material[lane])
                       => brdf[lane].direction = 1
              /\ \E r \in {continue_path(material, path_ray, brdf)} :
                   /\ path_ray' = r.ray
                   /\ color' = mul_coords_mod(color, r.color_mod)
                   /\ texture_index' =
                         save_first(bounce, texture_index,
                                    texture_of(material).tex_index)
                   /\ texture_coords' =
                         save_first(bounce, texture_coords,
                                    texture_of(material).tex_coords)
                   /\ fresnel' =
                         save_first(bounce, fresnel, texture_of(material).fr)
                   /\ bounce' = bounce + 1
                   /\ path_pc' = IF bounce + 1 < max_bounces
                                 THEN "loop" ELSE "emission"
    /\ UNCHANGED pixel_color
    /\ UNCHANGED <<bvh_vars, patch_vars, unit_vars>>

\* One iteration of the loop over the bounces, in any scene.
render_pixels_loop ==
    /\ path_pc = "loop"
    /\ \E material \in [Lanes -> BOOLEAN] : render_pixels_iteration(material)

\* The rays a lane can have: the camera ray, at origin 0 with any
\* direction, and the rays continue_path_brdf samples.  A scene gives the
\* material bit of the nearest intersection of each.
LaneRays == {<<0, d>> : d \in Directions}
               \cup {<<b.origin, b.direction>> : b \in BrdfSamples}
Scenes == [LaneRays -> BOOLEAN]

\* scene.intersect_nearest(&ray).material: on every lane that of the
\* nearest intersection of the lane's ray (origin and direction).
scene_material(scene, mray) ==
    [lane \in Lanes |-> scene[<<mray.origin[lane], mray.direction[lane]>>]]

\* One iteration of the loop over the bounces, in the scene of the call.
render_pixels_loop_scene ==
    /\ path_pc = "loop"
    /\ call # <<>> /\ call.fn = "render_pixels"
    /\ render_pixels_iteration(scene_material(call.scene, path_ray))

\* render_pixels after its loop: the light contribution, and black for the
\* lanes that found no light.
render_pixels_return ==
    /\ path_pc = "emission"
    /\ color' = mul_coords_sky(color, sky_intensity(path_ray.direction))
    /\ pixel_color' = pick(MVector3Zero, color', hit_emissive)
    /\ path_pc' = "done"
    /\ UNCHANGED <<path_ray, hit_emissive, bounce, texture_index,
                   texture_coords, fresnel, intersections>>
    /\ UNCHANGED <<bvh_vars, patch_vars, unit_vars>>

InitPixels ==
    /\ bvh_idle
    /\ patch_idle
    /\ path_idle
    /\ unit_idle

NextPixels ==
    \/ render_pixels
    \/ render_pixels_loop
    \/ render_pixels_return

SpecPixels == InitPixels /\ [][NextPixels]_vars

\* render_pixels in one scene, the same for every intersect_nearest of the
\* call.
InitPath ==
    /\ bvh_idle
    /\ patch_idle
    /\ path_idle
    /\ result = <<>>
    /\ \E scene \in Scenes : call = [fn |-> "render_pixels", scene |-> scene]

NextPath ==
    \/ render_pixels
    \/ render_pixels_loop_scene
    \/ render_pixels_return

SpecPath == InitPath /\ [][NextPath]_vars

\* C10: when render_pixels returns, a lane whose last intersection was not
\* emissive has a color of exactly zero in every channel, and a lane whose
\* last intersection was emissive has the color computed for it, unchanged.
C10_BlackUnlessEmissive ==
    path_pc = "done" =>
        \A lane \in Lanes :
            pixel_color[lane] = IF hit_emissive[lane]
                                THEN color[lane] ELSE <<0, 0, 0>>

\* render_pixels returned with one lane that ended on a light after a
\* bounce, with a color that is not black, and one lane that did not.
C10_Witness ==
    /\ path_pc = "done"
    /\ bounce > 0
    /\ \E lane \in Lanes : /\ hit_emissive[lane]
                           /\ color[lane] # <<0, 0, 0>>
                           /\ color[lane] # <<ColorOne * SkyOne, ColorOne * SkyOne,
                                              ColorOne * SkyOne>>
    /\ \E lane \in Lanes : /\ ~hit_emissive[lane]
                           /\ color[lane] # <<0, 0, 0>>

\* C11: render_pixels calls scene.intersect_nearest at most 5 times for a
\* packet.  An iteration whose hit material has the sign bit set on every
\* lane leaves the loop without calling continue_path (the ray, the color
\* and the loop counter stay as they were); an iteration with a lane whose
\* hit material is not emissive calls it, and leaves the loop only if it
\* was the fifth.
C11_AtMostFiveIntersections ==
    /\ [](intersections <= 5)
    /\ [][path_pc = "loop" =>
            /\ intersections' = intersections + 1
            /\ all_sign_bits_negative(hit_emissive') =>
                  /\ path_pc' = "emission"
                  /\ bounce' = bounce
                  /\ path_ray' = path_ray /\ color' = color
            /\ ~all_sign_bits_negative(hit_emissive') =>
                  /\ bounce' = bounce + 1
                  /\ path_pc' # "loop" => intersections' = 5]_vars

\* The fifth iteration found every lane on a light, after four bounces.
C11_Witness ==
    /\ path_pc = "emission"
    /\ intersections = 5
    /\ bounce = 4
    /\ all_sign_bits_negative(hit_emissive)
    /\ \E lane \in Lanes : ~path_ray.active[lane]

C13_TextureOfFirstBounce ==
    [][path_pc # "idle" =>
         IF path_pc = "loop" /\ bounce = 0 /\ bounce' = 1
         THEN /\ texture_index' = texture_of(hit_emissive').tex_index
              /\ texture_coords' = texture_of(hit_emissive').tex_coords
              /\ fresnel' = texture_of(hit_emissive').fr
         ELSE UNCHANGED <<texture_index, texture_coords, fresnel>>]_vars

\* render_pixels returned after three bounces, the last of them on a
\* surface with another texture than the first.
C13_Witness ==
    /\ path_pc = "done"
    /\ bounce = 3
    /\ texture_index # Mi32Zero
    /\ texture_index # texture_of(hit_emissive).tex_index
    /\ texture_coords # texture_of(hit_emissive).tex_coords
    /\ fresnel # texture_of(hit_emissive).fr

(***************************************************************************)
(* renderer.rs: blocks of 16x4 pixels.  An Mf32 or Mi32 is a function on   *)
(* M8, an [Mf32; 8] a function on M8 of those; a buffer is a function on   *)
(* 0 .. len-1.  A screen coordinate is an integer number of                *)
(* scale/JitterSteps, so that a sample of the rng, which is in [0, 1), is  *)
(* one of 0 .. JitterSteps-1.  The scene is an arbitrary fixed one: what   *)
(* a lane sees is a code of the point and time it was traced for, with a   *)
(* channel an integer number of 1/(2 * Range255).                          *)
(***************************************************************************)
BlockWidth == 16
BlockHeight == 4
Range255 == 255
M8 == 0..7
Width == BlockWidth * ViewTiles     \* Renderer.width
Height == 2 * BlockWidth            \* Renderer.height

\* RenderBuffer::new: width * height / 8 elements, memory uninitialized.
\* No patch reads an element before it assigned it; -1 marks the pixels
\* that were never assigned.
Uninitialized == [l \in M8 |-> -1]
RenderBufferNew == [e \in 0..((Width * Height) \div 8 - 1) |-> Uninitialized]

\* Rng::with_seed; the stream is keyed by the seed and counted by n.
with_seed(x, y, frame_number) == [seed |-> <<x, y, frame_number>>, n |-> 0]

\* Rng::sample_unit, the k-th one from now: 8 numbers in [0, 1).
sample_unit(rng, k) ==
    [lane \in M8 |->
        (rng.seed[1] \div BlockWidth + 3 * (rng.seed[2] \div BlockHeight)
         + 5 * rng.seed[3] + 7 * (rng.n + k) + lane) % JitterSteps]

\* The rng after k samples.
advance(rng, k) == [rng EXCEPT !.n = @ + k]

\* get_pixel_coords_16x4; it draws 16 samples.
get_pixel_coords_16x4(x, y, rng) ==
    LET scale_mul == <<2, 4, 8, 12>>
        off_x  == <<0, 1, 2, 3, 0, 1, 2, 3>>
        off_y  == <<0, 0, 0, 0, 1, 1, 1, 1>>
        base_x == [l \in M8 |-> off_x[l + 1] + (x - Width \div 2)]
        base_y == [l \in M8 |-> off_y[l + 1] + (y - Height \div 2)]
        add_x  == <<0, 0, scale_mul[2], scale_mul[2], scale_mul[3],
                    scale_mul[3], scale_mul[4], scale_mul[4]>>
        add_y  == <<0, scale_mul[1], 0, scale_mul[1], 0, scale_mul[1],
                    0, scale_mul[1]>>
    IN  [xs |-> [i \in M8 |-> [l \in M8 |->
                    sample_unit(rng, i)[l]
                    + JitterSteps * (base_x[l] + add_x[i + 1])]],
         ys |-> [i \in M8 |-> [l \in M8 |->
                    sample_unit(rng, 8 + i)[l]
                    + JitterSteps * (base_y[l] + add_y[i + 1])]],
         rng |-> advance(rng, 16)]

\* The pixel a screen coordinate lies in, and the position inside it.
pixel_x(cx) == (cx + JitterSteps * (Width \div 2)) \div JitterSteps
pixel_y(cy) == (cy + JitterSteps * (Height \div 2)) \div JitterSteps
sub_pixel(c) == c % JitterSteps

\* render_pixels as a function of its arguments and the rng: the scene is
\* immutable.  It draws t, and then what the path needs.
render_pixels_of(x, y, rng) ==
    LET t == sample_unit(rng, 0)
        time(l) == (sub_pixel(x[l]) * JitterSteps + sub_pixel(y[l]))
                   * JitterSteps + t[l]
    IN  [data |-> [color      |-> [l \in M8 |->
                                     <<pixel_x(x[l]), pixel_y(y[l]), time(l)>>],
                   tex_index  |-> [l \in M8 |-> (pixel_x(x[l]) + pixel_y(y[l])) % 2],
                   tex_coords |-> [l \in M8 |-> <<pixel_x(x[l]), pixel_y(y[l])>>],
                   fresnel    |-> [l \in M8 |-> time(l)]],
         rng |-> advance(rng, 1 + t[0])]

\* render_block_16x4 (enable_debug_view off): the eight render_pixels
\* calls, one after the other on the same rng.
render_block_16x4(x, y, rng) ==
    LET coords == get_pixel_coords_16x4(x, y, rng)
        rng_at[i \in 0..8] ==
            IF i = 0 THEN coords.rng
            ELSE render_pixels_of(coords.xs[i - 1], coords.ys[i - 1],
                                  rng_at[i - 1]).rng
        rngs == [i \in 0..8 |-> rng_at[i]]
    IN  [data |-> [i \in M8 |->
                     render_pixels_of(coords.xs[i], coords.ys[i], rngs[i]).data],
         rng  |-> rngs[8]]

\* A second line that repeats the first one.
mk_line1_low(left, right) ==
    [l \in M8 |-> IF l < 4 THEN left[l] ELSE right[l - 4]]

mk_line0(left, right) ==
    [l \in M8 |-> IF l < 4 THEN left[l] ELSE right[l - 4]]

mk_line1(left, right) ==
    [l \in M8 |-> IF l < 4 THEN left[l + 4] ELSE right[l]]

idx_line(x, y, line) == (y * Width + line * Width + x) \div 8

\* store_mi32_16x4: the eight assignments, in order.
store_mi32_16x4(target, x, y, data) ==
    [target EXCEPT ![idx_line(x, y, 0) + 0] = mk_line0(data[0], data[2]),
                   ![idx_line(x, y, 0) + 1] = mk_line0(data[4], data[6]),
                   ![idx_line(x, y, 1) + 0] = mk_line1(data[0], data[2]),
                   ![idx_line(x, y, 1) + 1] = mk_line1(data[4], data[6]),
                   ![idx_line(x, y, 2) + 0] = mk_line0(data[1], data[3]),
                   ![idx_line(x, y, 2) + 1] = mk_line0(data[5], data[7]),
                   ![idx_line(x, y, 3) + 0] = mk_line1(data[1], data[3]),
                   ![idx_line(x, y, 3) + 1] = mk_line1(data[5], data[7])]

\* The elements store_mi32_16x4 assigns, in order.
stored_mi32_16x4(x, y) ==
    <<idx_line(x, y, 0) + 0, idx_line(x, y, 0) + 1,
      idx_line(x, y, 1) + 0, idx_line(x, y, 1) + 1,
      idx_line(x, y, 2) + 0, idx_line(x, y, 2) + 1,
      idx_line(x, y, 3) + 0, idx_line(x, y, 3) + 1>>

\* The 32-bit RGBA of a color: each channel doubled, clamped to one and
\* scaled to 0 .. 255.
rgba_of(c) ==
    LET rgb_255(ch) == (Min(2 * c[ch], 2 * Range255) * Range255)
                       \div (2 * Range255)
    IN  rgb_255(1) + 256 * rgb_255(2) + 65536 * rgb_255(3)

\* An i32 as its four bytes, the low one first (two's complement), and back.
i32_bytes(x) ==
    <<x % 256, (x \div 256) % 256, (x \div 65536) % 256,
      (x \div 16777216) % 256>>

i32_of_bytes(b) ==
    b[1] + 256 * b[2] + 65536 * b[3]
    + 16777216 * (IF b[4] >= 128 THEN b[4] - 256 ELSE b[4])

\* The bitwise or of two bytes.
or_byte(p, q) ==
    IF p = 0 THEN q
    ELSE IF q = 0 THEN p
    ELSE LET bit(v, k) == (v \div k) % 2
             either(k) == k * Max(bit(p, k), bit(q, k))
         IN  either(1) + either(2) + either(4) + either(8) + either(16)
             + either(32) + either(64) + either(128)

\* a | b, a & 0xff and x << (8 * n) on the bytes of an i32; the bits
\* shifted out at the top are lost.
bitor(a, b) == [k \in 1..4 |-> or_byte(a[k], b[k])]
wrap_0xff(a) == <<a[1], 0, 0, 0>>
shl_bytes(a, n) == [k \in 1..4 |-> IF k > n THEN a[k - n] ELSE 0]

\* The G-buffer word of a lane: wrapped texture coordinates, the Fresnel
\* factor, and the texture index in the alpha channel.  The arguments are
\* the i32 that into_mi32 made of the values scaled by 255.
uv_of(tex_index, tex_coords, fres) ==
    LET r == wrap_0xff(i32_bytes(tex_coords[1]))
        g == shl_bytes(wrap_0xff(i32_bytes(tex_coords[2])), 1)
        b == shl_bytes(i32_bytes(fres), 2)
        a == shl_bytes(i32_bytes(tex_index), 3)
    IN  i32_of_bytes(bitor(bitor(r, g), bitor(b, a)))

store_pixels_color_16x4(target, x, y, data) ==
    LET rgbas == [i \in M8 |-> [l \in M8 |-> rgba_of(data[i].color[l])]]
    IN  store_mi32_16x4(target, x, y, rgbas)

store_pixels_gbuffer_16x4(target, x, y, data) ==
    LET uvs == [i \in M8 |-> [l \in M8 |->
                  uv_of(data[i].tex_index[l], data[i].tex_coords[l],
                        data[i].fresnel[l])]]
    IN  store_mi32_16x4(target, x, y, uvs)

\* new_buffer_f32: a zero color for each lane of each packet of each block.
new_buffer_f32 ==
    [b \in 0..((Width \div BlockWidth) * (Height \div BlockHeight) - 1) |->
        [k \in M8 |-> [l \in M8 |-> <<0, 0, 0>>]]]

\* An index that forgets the column of the patch.
hdr_index_row(x, y, i, j) == (y \div 4 + j) * (Width \div 16) + i

\* The index of the block (i, j) of the patch at (x, y).
hdr_index(x, y, i, j) == (y \div 4 + j) * (Width \div 16) + (x \div 16 + i)

\* An accumulate that stores the color of the current frame.
accumulate_overwrite(hdr, index, data) ==
    [hdr EXCEPT ![index] = [k \in M8 |-> [l \in M8 |->
        [ch \in Channels |-> data[k].color[l][ch]]]]]

\* hdr_buffer[index] = current + data.color, for the eight packets.
accumulate(hdr, index, data) ==
    [hdr EXCEPT ![index] = [k \in M8 |-> [l \in M8 |->
        [ch \in Channels |-> hdr[index][k][l][ch] + data[k].color[l][ch]]]]]

(***************************************************************************)
(* renderer.rs: two concurrent calls that render a patch each.  A step is  *)
(* the call up to its loop, or one iteration of the inner loop.            *)
(***************************************************************************)
Workers == {1, 2}
Frames == {0, 1}
PatchWidths == {BlockWidth}
PatchRows == {0, BlockHeight, BlockWidth}

Patches ==
    {p \in [x : {BlockWidth * t : t \in 0..(ViewTiles - 1)}, y : PatchRows,
            patch_width : PatchWidths] :
        /\ p.x + p.patch_width <= Width
        /\ p.y + p.patch_width <= Height}

overlap(p, q) ==
    /\ p.x < q.x + q.patch_width /\ q.x < p.x + p.patch_width
    /\ p.y < q.y + q.patch_width /\ q.y < p.y + p.patch_width

\* The next position of the loops, after the iteration (i, j).
next_iteration(wk, rng) ==
    LET w == wk.patch_width \div 16
        h == wk.patch_width \div 4
    IN  IF wk.j + 1 < h THEN [wk EXCEPT !.j = @ + 1, !.rng = rng]
        ELSE IF wk.i + 1 < w THEN [wk EXCEPT !.i = @ + 1, !.j = 0, !.rng = rng]
        ELSE [wk EXCEPT !.i = w, !.j = 0, !.rng = rng, !.pc = "done"]

written(buffer, indices) ==
    [k \in DOMAIN indices |-> [buffer |-> buffer, index |-> indices[k]]]

\* p before q, from left to right and bottom to top.
before(p, q) == p.x < q.x \/ (p.x = q.x /\ p.y < q.y)

\* Two calls on patches that do not overlap, about to be made; the first
\* worker is the one with the patch that comes first.
InitRender ==
    /\ bvh_idle
    /\ path_idle
    /\ unit_idle
    /\ bitmap = RenderBufferNew
    /\ gbuffer = RenderBufferNew
    /\ hdr_buffer = new_buffer_f32
    /\ writes = [w \in Workers |-> <<>>]
    /\ \E kind \in {"u8", "f32"}, frame_number \in Frames,
          p \in Patches, q \in Patches :
         /\ ~overlap(p, q)
         /\ before(p, q)
         /\ workers = [w \in Workers |->
               LET a == IF w = 1 THEN p ELSE q
               IN  [kind |-> kind, patch_width |-> a.patch_width,
                    x |-> a.x, y |-> a.y, frame_number |-> frame_number,
                    pc |-> "call", i |-> 0, j |-> 0,
                    rng |-> [seed |-> <<0, 0, 0>>, n |-> 0]]]

\* A call that goes on with the rng of the other call.
patch_call_shared(w, kind) ==
    /\ workers[w].pc = "call"
    /\ workers[w].kind = kind
    /\ workers[w].patch_width % 16 = 0
    /\ workers' = [workers EXCEPT ![w].rng = workers[3 - w].rng,
                                  ![w].pc = "loop"]
    /\ UNCHANGED <<bitmap, gbuffer, hdr_buffer, writes>>
    /\ UNCHANGED <<bvh_vars, path_vars, unit_vars>>

\* render_patch_u8 or accumulate_patch_f32 up to the loops.
patch_call(w, kind) ==
    /\ workers[w].pc = "call"
    /\ workers[w].kind = kind
    /\ workers[w].patch_width % 16 = 0
    /\ workers' = [workers EXCEPT
                     ![w].rng = with_seed(workers[w].x, workers[w].y,
                                          workers[w].frame_number),
                     ![w].pc = "loop"]
    /\ UNCHANGED <<bitmap, gbuffer, hdr_buffer, writes>>
    /\ UNCHANGED <<bvh_vars, path_vars, unit_vars>>

render_patch_u8 == \E w \in Workers : patch_call(w, "u8")

accumulate_patch_f32 == \E w \in Workers : patch_call(w, "f32")

\* One iteration of the loops of render_patch_u8.
render_patch_u8_loop ==
    \E w \in Workers :
        /\ workers[w].pc = "loop"
        /\ workers[w].kind = "u8"
        /\ LET wk == workers[w]
               xb == wk.x + wk.i * 16
               yb == wk.y + wk.j * 4
           IN  \E r \in {render_block_16x4(xb, yb, wk.rng)} :
                 /\ bitmap' = store_pixels_color_16x4(bitmap, xb, yb, r.data)
                 /\ gbuffer' = store_pixels_gbuffer_16x4(gbuffer, xb, yb, r.data)
                 /\ writes' = [writes EXCEPT ![w] = @
                       \o written("bitmap", stored_mi32_16x4(xb, yb))
                       \o written("gbuffer", stored_mi32_16x4(xb, yb))]
                 /\ workers' = [workers EXCEPT ![w] = next_iteration(wk, r.rng)]
        /\ UNCHANGED hdr_buffer
        /\ UNCHANGED <<bvh_vars, path_vars, unit_vars>>

\* One iteration of the loops of accumulate_patch_f32.
accumulate_patch_f32_loop ==
    \E w \in Workers :
        /\ workers[w].pc = "loop"
        /\ workers[w].kind = "f32"
        /\ LET wk == workers[w]
               xb == wk.x + wk.i * 16
               yb == wk.y + wk.j * 4
               index == hdr_index(wk.x, wk.y, wk.i, wk.j)
           IN  \E r \in {render_block_16x4(xb, yb, wk.rng)} :
                 /\ hdr_buffer' = accumulate(hdr_buffer, index, r.data)
                 /\ gbuffer' = store_pixels_gbuffer_16x4(gbuffer, xb, yb, r.data)
                 /\ writes' = [writes EXCEPT ![w] = @
                       \o written("hdr_buffer", <<index>>)
                       \o written("gbuffer", stored_mi32_16x4(xb, yb))]
                 /\ workers' = [workers EXCEPT ![w] = next_iteration(wk, r.rng)]
        /\ UNCHANGED bitmap
        /\ UNCHANGED <<bvh_vars, path_vars, unit_vars>>

NextRender ==
    \/ render_patch_u8
    \/ accumulate_patch_f32
    \/ render_patch_u8_loop
    \/ accumulate_patch_f32_loop

SpecRender == InitRender /\ [][NextRender]_vars

(***************************************************************************)
(* renderer.rs: the frames of one patch.  The caller makes a buffer with   *)
(* new_buffer_f32 and calls accumulate_patch_f32 on the patch once for     *)
(* each frame, with consecutive frame numbers.                             *)
(***************************************************************************)
InitFrames ==
    /\ bvh_idle
    /\ path_idle
    /\ unit_idle
    /\ bitmap = RenderBufferNew
    /\ gbuffer = RenderBufferNew
    /\ hdr_buffer = new_buffer_f32
    /\ writes = [w \in Workers |-> <<>>]
    /\ \E p \in Patches, frame_number \in Frames :
         workers = [w \in Workers |->
                      [kind |-> "f32", patch_width |-> p.patch_width,
                       x |-> p.x, y |-> p.y, frame_number |-> frame_number,
                       first_frame |-> frame_number,
                       pc |-> IF w = 1 THEN "call" ELSE "idle",
                       i |-> 0, j |-> 0,
                       rng |-> [seed |-> <<0, 0, 0>>, n |-> 0]]]

\* The caller goes on to the next frame of the patch.
next_frame ==
    \E w \in Workers :
        /\ workers[w].pc = "done"
        /\ workers[w].frame_number + 1 < workers[w].first_frame + MaxFrames
        /\ workers' = [workers EXCEPT ![w].frame_number = @ + 1,
                                      ![w].pc = "call",
                                      ![w].i = 0, ![w].j = 0]
        /\ UNCHANGED <<bitmap, gbuffer, hdr_buffer, writes>>
        /\ UNCHANGED <<bvh_vars, path_vars, unit_vars>>

NextFrames ==
    \/ accumulate_patch_f32
    \/ accumulate_patch_f32_loop
    \/ next_frame

SpecFrames == InitFrames /\ [][NextFrames]_vars

(***************************************************************************)
(* renderer.rs: store_pixels_gbuffer_16x4 on arbitrary pixel data.  The    *)
(* values are the i32 that into_mi32 makes of the texture coordinates and  *)
(* of the Fresnel factor scaled by 255: a value in [0, 1] gives 0 .. 255.  *)
(***************************************************************************)
TexIndices == {0, 3, 7}
TexCoords == {-1, 0, 200, 261}
FresnelValues == {-1, 0, 128, 255, 256, 300}

\* The packets of a block in which every pixel has texture t and Fresnel
\* factor f, and the pixel of lane l of packet i the coordinates
\* (u + i, v + l).
block_data(t, u, v, f) ==
    [i \in M8 |-> [color      |-> [l \in M8 |-> <<0, 0, 0>>],
                   tex_index  |-> [l \in M8 |-> t],
                   tex_coords |-> [l \in M8 |-> <<u + i, v + l>>],
                   fresnel    |-> [l \in M8 |-> f]]]

InitStore ==
    /\ bvh_idle
    /\ path_idle
    /\ unit_idle
    /\ bitmap = <<>> /\ hdr_buffer = <<>> /\ writes = <<>>
    /\ gbuffer = RenderBufferNew
    /\ \E t \in TexIndices, u \in TexCoords, v \in TexCoords,
          f \in FresnelValues, xt \in 0..(ViewTiles - 1) :
         workers = [kind |-> "gbuffer", pc |-> "call",
                    x |-> BlockWidth * xt, y |-> BlockHeight,
                    tex_index |-> t, u |-> u, v |-> v, fresnel |-> f]

\* A call of store_pixels_gbuffer_16x4.
store_gbuffer ==
    /\ workers.pc = "call"
    /\ gbuffer' = store_pixels_gbuffer_16x4(gbuffer, workers.x, workers.y,
                     block_data(workers.tex_index, workers.u, workers.v,
                                workers.fresnel))
    /\ workers' = [workers EXCEPT !.pc = "done"]
    /\ UNCHANGED <<bitmap, hdr_buffer, writes>>
    /\ UNCHANGED <<bvh_vars, path_vars, unit_vars>>

NextStore == store_gbuffer

SpecStore == InitStore /\ [][NextStore]_vars

(***************************************************************************)
(* Numbers.  The lane of an Mf32 is either a rounded number, an integer    *)
(* with MantissaBits significant bits, every operation on which rounds its *)
(* exact result to the nearest such integer (ties to the even mantissa),   *)
(* as f32 operations do with 24 bits; or an exact number (a + b t) / 2^k   *)
(* with t * t = 2, on which the operations are those of the reals.         *)
(***************************************************************************)
Rounded(x) == [kind |-> "f32", val |-> x]
Exact(a, b, k) == [kind |-> "exact", a |-> a, b |-> b, k |-> k]

\* The rounded number nearest to the integer x.
round_f32(x) ==
    LET mag     == IF x < 0 THEN 0 - x ELSE x
        limit   == 2 ^ MantissaBits
        quantum == CHOOSE q \in {2 ^ e : e \in 0..12} :
                      /\ mag \div q < limit
                      /\ q = 1 \/ mag \div q >= limit \div 2
        m       == mag \div quantum
        r       == mag % quantum
        up      == 2 * r > quantum \/ (2 * r = quantum /\ m % 2 = 1)
        rounded == (IF up THEN m + 1 ELSE m) * quantum
    IN  IF x < 0 THEN 0 - rounded ELSE rounded

\* simd_add, simd_sub and simd_mul on a lane.
num_add(x, y) ==
    IF x.kind = "f32" THEN Rounded(round_f32(x.val + y.val))
    ELSE LET k == Max(x.k, y.k)
         IN  Exact(x.a * 2 ^ (k - x.k) + y.a * 2 ^ (k - y.k),
                   x.b * 2 ^ (k - x.k) + y.b * 2 ^ (k - y.k), k)

\* A subtraction that adds.
num_sub_adds(x, y) == num_add(x, y)

num_sub(x, y) ==
    IF x.kind = "f32" THEN Rounded(round_f32(x.val - y.val))
    ELSE LET k == Max(x.k, y.k)
         IN  Exact(x.a * 2 ^ (k - x.k) - y.a * 2 ^ (k - y.k),
                   x.b * 2 ^ (k - x.k) - y.b * 2 ^ (k - y.k), k)

num_mul(x, y) ==
    IF x.kind = "f32" THEN Rounded(round_f32(x.val * y.val))
    ELSE Exact(x.a * y.a + 2 * x.b * y.b, x.a * y.b + x.b * y.a, x.k + y.k)

\* Whether two numbers of the same kind have the same value.
num_eq(x, y) ==
    IF x.kind = "f32" THEN x.val = y.val
    ELSE /\ x.a * 2 ^ y.k = y.a * 2 ^ x.k
         /\ x.b * 2 ^ y.k = y.b * 2 ^ x.k

\* The integer n as a number of a kind.
num_of(kind, n) == IF kind = "f32" THEN Rounded(n) ELSE Exact(n, 0, 0)

(***************************************************************************)
(* quaternion.rs: rotate, on one lane: v is <<x, y, z>> and q is           *)
(* <<a, b, c, d>>.                                                         *)
(***************************************************************************)
\* A rotate that adds pd * q.b in rc where rotate subtracts it.
rotate_sign(v, q) ==
    LET p_a == num_add(num_add(num_mul(q[2], v[1]), num_mul(q[3], v[2])),
                      num_mul(q[4], v[3]))
        p_b == num_add(num_add(num_add(num_sub(num_mul(q[2], v[1]),
                                              num_mul(q[3], v[2])),
                                      num_mul(q[4], v[3])),
                              num_mul(num_sub(q[1], q[2]), v[1])),
                      num_mul(num_sub(q[3], q[4]), num_add(v[2], v[3])))
        p_c == num_sub(num_add(num_mul(q[4], v[1]), num_mul(q[1], v[2])),
                      num_mul(q[2], v[3]))
        p_d == num_add(num_sub(num_sub(num_sub(num_mul(q[4], v[1]),
                                              num_mul(q[1], v[2])),
                                      num_mul(q[2], v[3])),
                              num_mul(num_add(q[3], q[4]), v[1])),
                      num_mul(num_add(q[1], q[2]), num_add(v[2], v[3])))
        rb == num_sub(num_add(num_sub(num_sub(num_sub(
                  num_mul(num_add(p_a, p_b), num_add(q[1], q[2])),
                  num_mul(num_sub(p_c, p_d), num_add(q[3], q[4]))),
                  num_mul(p_a, q[1])),
                  num_mul(p_b, q[2])),
                  num_mul(p_c, q[3])),
                  num_mul(p_d, q[4]))
        rc == num_add(num_add(num_add(num_mul(p_c, q[1]), num_mul(p_d, q[2])),
                              num_mul(p_a, q[3])),
                      num_mul(p_b, q[4]))
        rd == num_add(num_sub(num_sub(num_sub(num_add(
                  num_mul(num_add(p_c, p_d), num_add(q[1], q[2])),
                  num_mul(num_sub(p_a, p_b), num_add(q[3], q[4]))),
                  num_mul(p_c, q[1])),
                  num_mul(p_d, q[2])),
                  num_mul(p_a, q[3])),
                  num_mul(p_b, q[4]))
    IN  <<rb, rc, rd>>

rotate(v, q) ==
    LET p_a == num_add(num_add(num_mul(q[2], v[1]), num_mul(q[3], v[2])),
                      num_mul(q[4], v[3]))
        p_b == num_add(num_add(num_add(num_sub(num_mul(q[2], v[1]),
                                              num_mul(q[3], v[2])),
                                      num_mul(q[4], v[3])),
                              num_mul(num_sub(q[1], q[2]), v[1])),
                      num_mul(num_sub(q[3], q[4]), num_add(v[2], v[3])))
        p_c == num_sub(num_add(num_mul(q[4], v[1]), num_mul(q[1], v[2])),
                      num_mul(q[2], v[3]))
        p_d == num_add(num_sub(num_sub(num_sub(num_mul(q[4], v[1]),
                                              num_mul(q[1], v[2])),
                                      num_mul(q[2], v[3])),
                              num_mul(num_add(q[3], q[4]), v[1])),
                      num_mul(num_add(q[1], q[2]), num_add(v[2], v[3])))
        rb == num_sub(num_add(num_sub(num_sub(num_sub(
                  num_mul(num_add(p_a, p_b), num_add(q[1], q[2])),
                  num_mul(num_sub(p_c, p_d), num_add(q[3], q[4]))),
                  num_mul(p_a, q[1])),
                  num_mul(p_b, q[2])),
                  num_mul(p_c, q[3])),
                  num_mul(p_d, q[4]))
        rc == num_add(num_add(num_sub(num_mul(p_c, q[1]), num_mul(p_d, q[2])),
                              num_mul(p_a, q[3])),
                      num_mul(p_b, q[4]))
        rd == num_add(num_sub(num_sub(num_sub(num_add(
                  num_mul(num_add(p_c, p_d), num_add(q[1], q[2])),
                  num_mul(num_sub(p_a, p_b), num_add(q[3], q[4]))),
                  num_mul(p_c, q[1])),
                  num_mul(p_d, q[2])),
                  num_mul(p_a, q[3])),
                  num_mul(p_b, q[4]))
    IN  <<rb, rc, rd>>

\* The quaternions of the tests: the identity, and the rotations by pi/2
\* about the axes, with half_sqrt_2 = t / 2 (an exact number only).
Rotations == {"identity", "x", "y", "z"}
quaternion(kind, name) ==
    LET zero == num_of(kind, 0)
        one  == num_of(kind, 1)
        half_sqrt_2 == Exact(0, 1, 1)
    IN  CASE name = "identity" -> <<one, zero, zero, zero>>
          [] name = "x" -> <<half_sqrt_2, half_sqrt_2, zero, zero>>
          [] name = "y" -> <<half_sqrt_2, zero, half_sqrt_2, zero>>
          [] name = "z" -> <<half_sqrt_2, zero, zero, half_sqrt_2>>

\* The coordinates of the vectors rotated; lane l of the packet holds the
\* vector with its coordinates moved round by l places.
Coordinates == {-32, -1, 0, 1, 3, 32}
lane_vector(v, lane) ==
    [c \in 1..3 |-> v[((c - 1 + lane) % 3) + 1]]

InitRotate ==
    /\ bvh_idle
    /\ patch_idle
    /\ path_idle
    /\ result = <<>>
    /\ \E kind \in {"f32", "exact"}, name \in Rotations,
          v \in [1..3 -> Coordinates] :
         /\ kind = "f32" => name = "identity"
         /\ call = [fn |-> "rotate", kind |-> kind, rotation |-> name,
                    vector |-> <<v[1], v[2], v[3]>>]

\* rotate(&vector, &MQuaternion::broadcast(rotation)), lane by lane.
rotate_call ==
    /\ call # <<>> /\ call.fn = "rotate"
    /\ result = <<>>
    /\ result' = [lane \in Lanes |->
                    rotate([c \in 1..3 |->
                               num_of(call.kind,
                                      lane_vector(call.vector, lane)[c])],
                           quaternion(call.kind, call.rotation))]
    /\ UNCHANGED call
    /\ UNCHANGED <<bvh_vars, patch_vars, path_vars>>

NextRotate == rotate_call

SpecRotate == InitRotate /\ [][NextRotate]_vars

(***************************************************************************)
(* simd.rs: Mf32::any_positive_masked.  A lane is the sign bit of an f32   *)
(* and the rest of its bits: zero, a number, or a NaN (all other bits set, *)
(* as in the mask 0xffffffff).                                             *)
(***************************************************************************)
Floats == [sign : {0, 1}, rest : {"zero", "one", "nan"}]

\* vtestps, carry flag: 1 if the sign bit of (not x) and y is 0 on every
\* lane, 0 otherwise.
x86_mm256_testc_ps(x, y) ==
    LET not_x_and_y == [lane \in Lanes |-> (1 - x[lane].sign) * y[lane].sign]
    IN  IF \A lane \in Lanes : not_x_and_y[lane] = 0 THEN 1 ELSE 0

\* An any_positive_masked that looks at every lane.
any_positive_unmasked(self, mask) ==
    LET no_positive ==
            x86_mm256_testc_ps(self, [lane \in Lanes |->
                                         [sign |-> 1, rest |-> "nan"]]) % 256 = 1
    IN  ~no_positive

any_positive_masked(self, mask) ==
    LET no_positive == x86_mm256_testc_ps(self, mask) % 256 = 1
    IN  ~no_positive

InitMask ==
    /\ bvh_idle
    /\ patch_idle
    /\ path_idle
    /\ result = <<>>
    /\ \E self \in [Lanes -> Floats], mask \in [Lanes -> Floats] :
         call = [fn |-> "any_positive_masked", self |-> self, mask |-> mask]

any_positive_masked_call ==
    /\ call # <<>> /\ call.fn = "any_positive_masked"
    /\ result = <<>>
    /\ result' = <<any_positive_masked(call.self, call.mask)>>
    /\ UNCHANGED call
    /\ UNCHANGED <<bvh_vars, patch_vars, path_vars>>

NextMask == any_positive_masked_call

SpecMask == InitMask /\ [][NextMask]_vars

(***************************************************************************)
(* The program: it builds and traces a Bvh, renders patches, or follows    *)
(* the paths of a packet of pixels.                                        *)
(***************************************************************************)
Init == InitBvh \/ InitSplit \/ InitRender \/ InitPixels \/ InitFrames \/ InitStore
        \/ InitRotate \/ InitMask \/ InitPath \/ InitBins

Next == NextBvh \/ NextOrder \/ NextSplit \/ NextRender \/ NextPixels \/ NextFrames \/ NextStore
        \/ NextRotate \/ NextMask \/ NextPath \/ NextBins

Spec == Init /\ [][Next]_vars

(***************************************************************************)
(* Properties of the patches.                                              *)
(***************************************************************************)
\* The pixels an element of a buffer holds: eight of a row of the bitmap
\* or the G-buffer, a block of 16x4 of the HDR buffer.
pixels_of(a) ==
    IF a.buffer = "hdr_buffer"
    THEN {<<BlockWidth * (a.index % (Width \div BlockWidth)) + dx,
            BlockHeight * (a.index \div (Width \div BlockWidth)) + dy>> :
            dx \in 0..(BlockWidth - 1), dy \in 0..(BlockHeight - 1)}
    ELSE {<<(8 * a.index + k) % Width, (8 * a.index + k) \div Width>> :
            k \in M8}

in_patch(wk, pixel) ==
    /\ wk.x <= pixel[1] /\ pixel[1] < wk.x + wk.patch_width
    /\ wk.y <= pixel[2] /\ pixel[2] < wk.y + wk.patch_width

\* C7: two concurrent calls of render_patch_u8 or accumulate_patch_f32 on
\* patches that do not overlap never assign the same element of the bitmap,
\* the G-buffer or the HDR buffer, and each assigns only elements that hold
\* pixels of its own patch.
C7_DisjointPatchWrites ==
    /\ Range(writes[1]) \cap Range(writes[2]) = {}
    /\ \A w \in Workers : \A a \in Range(writes[w]) :
          \A pixel \in pixels_of(a) : in_patch(workers[w], pixel)

\* Both calls accumulated their patches, which lie side by side and start
\* on different rows.
C7_Witness ==
    /\ \A w \in Workers : workers[w].pc = "done" /\ workers[w].kind = "f32"
    /\ workers[1].x + workers[1].patch_width = workers[2].x
    /\ workers[1].y = BlockHeight
    /\ workers[2].y = 0
    /\ Len(writes[1]) = Len(writes[2])
    /\ Len(writes[1]) > 0

\* The data of the blocks of a patch in the order of the loops, as a call
\* alone computes it.
patch_data(wk) ==
    LET h == wk.patch_width \div 4
        n == (wk.patch_width \div 16) * h
        xb(k) == wk.x + (k \div h) * 16
        yb(k) == wk.y + (k % h) * 4
        rng_at[k \in 0..n] ==
            IF k = 0 THEN with_seed(wk.x, wk.y, wk.frame_number)
            ELSE render_block_16x4(xb(k - 1), yb(k - 1), rng_at[k - 1]).rng
    IN  [k \in 0..(n - 1) |->
            [i |-> k \div h, j |-> k % h, xb |-> xb(k), yb |-> yb(k),
             data |-> render_block_16x4(xb(k), yb(k), rng_at[k]).data]]

\* The buffers hold, for the block b of a patch, what a call alone leaves
\* in fresh buffers.
block_as_alone(wk, b) ==
    LET elements == Range(stored_mi32_16x4(b.xb, b.yb))
        index == hdr_index(wk.x, wk.y, b.i, b.j)
        alone_g == store_pixels_gbuffer_16x4(RenderBufferNew, b.xb, b.yb, b.data)
        alone_b == store_pixels_color_16x4(RenderBufferNew, b.xb, b.yb, b.data)
    IN  /\ \A e \in elements : gbuffer[e] = alone_g[e]
        /\ wk.kind = "u8" => \A e \in elements : bitmap[e] = alone_b[e]
        /\ wk.kind = "f32" =>
              hdr_buffer[index] = accumulate(new_buffer_f32, index, b.data)[index]

\* C8: what a call leaves in its patch of the buffers is a function of
\* (x, y, frame_number) and the scene alone, whatever the other call did
\* meanwhile.
C8_PatchIsDeterministic ==
    \A w \in Workers :
        workers[w].pc = "done" =>
            \E blocks \in {patch_data(workers[w])} :
                \A k \in DOMAIN blocks : block_as_alone(workers[w], blocks[k])

\* The first call returned while the second one, of frame 1, was half way.
C8_Witness ==
    /\ workers[1].pc = "done"
    /\ workers[2].pc = "loop"
    /\ workers[2].j = 2
    /\ workers[1].frame_number = 1
    /\ workers[1].rng.n > workers[2].rng.n
    /\ workers[2].rng.n > 0

\* The pixel (px, py) of a bitmap, at its row-major position.
pixel_at(target, px, py) ==
    target[(py * Width + px) \div 8][(py * Width + px) % 8]

\* What the iteration that worker w is about to make does with its block.
block_layout(w) ==
    LET wk == workers[w]
        xb == wk.x + wk.i * 16
        yb == wk.y + wk.j * 4
        block == {<<xb + dx, yb + dy>> : dx \in 0..(BlockWidth - 1),
                                         dy \in 0..(BlockHeight - 1)}
        new == SubSeq(writes'[w], Len(writes[w]) + 1, Len(writes'[w]))
        stores(buffer) == SelectSeq(new, LAMBDA a : a.buffer = buffer)
        once(buffer) ==
            /\ Cardinality(Range(stores(buffer))) = Len(stores(buffer))
            /\ UNION {pixels_of(a) : a \in Range(stores(buffer))} = block
            /\ 8 * Len(stores(buffer)) = Cardinality(block)
    IN  /\ \E coords \in {get_pixel_coords_16x4(xb, yb, wk.rng)},
              blk \in {render_block_16x4(xb, yb, wk.rng)} :
            \A p \in M8, l \in M8 :
              LET px == xb + 4 * (p \div 2) + (l % 4)
                  py == yb + 2 * (p % 2) + (l \div 4)
              IN  /\ pixel_x(coords.xs[p][l]) = px
                  /\ pixel_y(coords.ys[p][l]) = py
                  /\ pixel_at(gbuffer', px, py)
                        = uv_of(blk.data[p].tex_index[l],
                                blk.data[p].tex_coords[l], blk.data[p].fresnel[l])
                  /\ wk.kind = "u8" =>
                        pixel_at(bitmap', px, py) = rgba_of(blk.data[p].color[l])
        /\ \A e \in DOMAIN gbuffer :
              pixels_of([buffer |-> "gbuffer", index |-> e]) \cap block = {}
                 => gbuffer'[e] = gbuffer[e] /\ bitmap'[e] = bitmap[e]
        /\ once("gbuffer")
        /\ wk.kind = "u8" => once("bitmap")

\* C9: in a block at (x, y), lane l of packet p is traced for the pixel
\* (x + 4 * (p div 2) + (l mod 4), y + 2 * (p mod 2) + (l div 4)), and
\* store_mi32_16x4 puts the lane's value at the row-major position of that
\* pixel; the 64 pixels of the block are assigned once each, and no pixel
\* outside the block is assigned.
C9_BlockLayout ==
    [][\A w \in Workers :
          (workers[w].pc = "loop" /\ workers'[w] # workers[w])
             => block_layout(w)]_vars

\* A call of render_patch_u8 on a patch that starts on row 4 stored its
\* second block, and the pixel in the top right corner of that block holds
\* its own coordinates.
C9_Witness ==
    \E w \in Workers :
        /\ workers[w].kind = "u8"
        /\ workers[w].y = BlockHeight
        /\ workers[w].pc = "loop"
        /\ workers[w].j = 2
        /\ LET px == workers[w].x + BlockWidth - 1
               py == workers[w].y + 2 * BlockHeight - 1
           IN  /\ pixel_at(bitmap, px, py) >= 0
               /\ pixel_at(bitmap, px, py) % 256 = px
               /\ (pixel_at(bitmap, px, py) \div 256) % 256 = py

\* C14: in every G-buffer pixel store_pixels_gbuffer_16x4 writes, the four
\* bytes are independent fields: R is U * 255 modulo 256, G is V * 255
\* modulo 256, B is Fresnel * 255 clamped to 0 .. 255, and A is the texture
\* index, whatever the Fresnel factor is.
C14_ByteFieldsIndependent ==
    (workers # <<>> /\ workers.kind = "gbuffer" /\ workers.pc = "done") =>
        \A e \in Range(stored_mi32_16x4(workers.x, workers.y)), k \in M8 :
            \E word \in {i32_bytes(gbuffer[e][k])} :
                /\ \E i \in M8, l \in M8 :
                      /\ word[1] = (workers.u + i) % 256
                      /\ word[2] = (workers.v + l) % 256
                /\ word[3] = Max(0, Min(workers.fresnel, 255))
                /\ word[4] = workers.tex_index

\* The frames in which the call of worker wk has rendered block k of its
\* patch so far (k counts the blocks in the order of the loops).
frames_done(wk, k) ==
    LET h == wk.patch_width \div 4
        reached == \/ wk.pc = "done"
                   \/ wk.pc = "loop" /\ k < wk.i * h + wk.j
    IN  wk.first_frame .. (IF reached THEN wk.frame_number
                                      ELSE wk.frame_number - 1)

\* What each frame of a set renders for block k of the patch of wk.
frame_blocks(wk, frames, k) ==
    {[frame |-> g, block |-> patch_data([wk EXCEPT !.frame_number = g])[k]] :
        g \in frames}

\* The sum of the colors that the frames have at (packet p, lane l,
\* channel ch) of the block.
RECURSIVE frames_sum(_, _, _, _)
frames_sum(blocks, p, l, ch) ==
    IF blocks = {} THEN 0
    ELSE LET b == CHOOSE b \in blocks : TRUE
         IN  b.block.data[p].color[l][ch] + frames_sum(blocks \ {b}, p, l, ch)

\* C15: accumulate_patch_f32 adds the colors of the current frame to the
\* HDR blocks of its patch and to no other block, and overwrites the
\* G-buffer: starting from new_buffer_f32, a block of the patch holds the
\* sum of the colors of the frames rendered into it so far, every block
\* outside the patch is still zero, and the G-buffer holds what the last
\* frame rendered into a block stores, alone, into a fresh one.
C15_HdrIsSumOfFrames ==
    \E wk \in {workers[1]} :
      \E h \in {wk.patch_width \div 4} :
        LET n == (wk.patch_width \div 16) * h
            index(k) == hdr_index(wk.x, wk.y, k \div h, k % h)
        IN  /\ \A b \in DOMAIN hdr_buffer :
                  (\A k \in 0..(n - 1) : b # index(k))
                     => hdr_buffer[b] = new_buffer_f32[b]
            /\ \A k \in 0..(n - 1) :
                  \E blocks \in {frame_blocks(wk, frames_done(wk, k), k)} :
                    /\ hdr_buffer[index(k)] =
                          [p \in M8 |-> [l \in M8 |-> [ch \in Channels |->
                              frames_sum(blocks, p, l, ch)]]]
                    /\ \A last \in blocks :
                          (\A other \in blocks : other.frame <= last.frame) =>
                            \E b \in {last.block}, alone \in
                               {store_pixels_gbuffer_16x4(RenderBufferNew,
                                   last.block.xb, last.block.yb,
                                   last.block.data)} :
                              \A e \in Range(stored_mi32_16x4(b.xb, b.yb)) :
                                 gbuffer[e] = alone[e]

\* Three frames were accumulated into a patch: its first block holds more
\* than the last frame, which is what the G-buffer holds.
C15_Witness ==
    /\ workers # <<>> /\ DOMAIN workers = Workers
    /\ workers[1].kind = "f32" /\ workers[1].pc = "done"
    /\ "first_frame" \in DOMAIN workers[1]
    /\ workers[1].frame_number = workers[1].first_frame + 2
    /\ \E index \in {hdr_index(workers[1].x, workers[1].y, 0, 0)} :
         /\ index > 0
         /\ \E p \in M8, l \in M8 :
               hdr_buffer[index][p][l][3]
                 > patch_data(workers[1])[0].data[p].color[l][3]
         /\ hdr_buffer[0] = new_buffer_f32[0]

\* The vector a call of rotate was given on a lane, and whether a rotated
\* vector has the integer coordinates <<x, y, z>>.
rotated_vector(lane) == lane_vector(call.vector, lane)
rotated_to(lane, x, y, z) ==
    /\ num_eq(result[lane][1], num_of(call.kind, x))
    /\ num_eq(result[lane][2], num_of(call.kind, y))
    /\ num_eq(result[lane][3], num_of(call.kind, z))

\* C18, as stated: rotate with the identity quaternion (1, 0, 0, 0)
\* returns the vector itself, on every lane and in every coordinate.
C18_IdentityReturnsVector ==
    (call # <<>> /\ call.fn = "rotate" /\ call.rotation = "identity"
       /\ result # <<>>) =>
        \A lane \in Lanes :
            \E v \in {rotated_vector(lane)} : rotated_to(lane, v[1], v[2], v[3])

\* C18, amended: with the identity quaternion rotate returns x and y as
\* they are; it returns z as it is in exact arithmetic, and in rounded
\* arithmetic whenever y + z is not rounded; otherwise it returns
\* ((y + ((y + z) - y)) - y), each operation rounded.
C18_IdentityUpToRounding ==
    (call # <<>> /\ call.fn = "rotate" /\ call.rotation = "identity"
       /\ result # <<>>) =>
        \A lane \in Lanes :
            \E v \in {rotated_vector(lane)} :
                /\ num_eq(result[lane][1], num_of(call.kind, v[1]))
                /\ num_eq(result[lane][2], num_of(call.kind, v[2]))
                /\ (call.kind = "exact" \/ round_f32(v[2] + v[3]) = v[2] + v[3])
                      => num_eq(result[lane][3], num_of(call.kind, v[3]))
                /\ call.kind = "f32" =>
                      result[lane][3].val =
                         round_f32(round_f32(v[2] + round_f32(
                             round_f32(v[2] + v[3]) - v[2])) - v[2])

\* rotate with the identity quaternion and rounded arithmetic returned a
\* vector with another z on one lane, and the vector itself on another.
C18_Witness ==
    /\ call # <<>> /\ call.fn = "rotate" /\ call.rotation = "identity"
    /\ call.kind = "f32"
    /\ result # <<>>
    /\ \E lane \in Lanes :
          /\ result[lane][1].val = rotated_vector(lane)[1]
          /\ result[lane][2].val = rotated_vector(lane)[2]
          /\ result[lane][3].val # rotated_vector(lane)[3]
    /\ \E lane \in Lanes :
          \E v \in {rotated_vector(lane)} : rotated_to(lane, v[1], v[2], v[3])

\* C19: with exact numbers and half_sqrt_2 * half_sqrt_2 = 1/2, rotate maps
\* every (x, y, z) to (x, -z, y) for the quaternion (s, s, 0, 0), to
\* (z, y, -x) for (s, 0, s, 0) and to (-y, x, z) for (s, 0, 0, s).
C19_QuarterTurns ==
    (call # <<>> /\ call.fn = "rotate" /\ call.kind = "exact"
       /\ result # <<>>) =>
        /\ num_eq(num_mul(quaternion("exact", "x")[1],
                          quaternion("exact", "x")[1]), Exact(1, 0, 1))
        /\ \A lane \in Lanes :
              \E v \in {rotated_vector(lane)} :
                  /\ call.rotation = "x" => rotated_to(lane, v[1], 0 - v[3], v[2])
                  /\ call.rotation = "y" => rotated_to(lane, v[3], v[2], 0 - v[1])
                  /\ call.rotation = "z" => rotated_to(lane, 0 - v[2], v[1], v[3])

\* rotate about the x axis has returned a vector that differs from the one
\* it was given in y and in z.
C19_Witness ==
    /\ call # <<>> /\ call.fn = "rotate" /\ call.kind = "exact"
    /\ call.rotation = "x"
    /\ result # <<>>
    /\ \E lane \in Lanes :
          \E v \in {rotated_vector(lane)} :
              /\ v[2] # 0 - v[3] /\ v[2] # v[3] /\ v[1] # 0
              /\ rotated_to(lane, v[1], 0 - v[3], v[2])

\* C20: any_positive_masked(self, mask) is true exactly when some lane has
\* the sign bit of the mask set and the sign bit of the value clear; a lane
\* whose mask sign bit is clear is ignored, -0.0 does not count as positive
\* and +0.0 does.
C20_AnyPositiveMasked ==
    (call # <<>> /\ call.fn = "any_positive_masked" /\ result # <<>>) =>
        /\ result[1] = (\E lane \in Lanes : /\ call.mask[lane].sign = 1
                                             /\ call.self[lane].sign = 0)
        /\ (\A lane \in Lanes : call.mask[lane].sign = 0) => ~result[1]
        /\ (\A lane \in Lanes :
               call.mask[lane].sign = 1 =>
                   call.self[lane] = [sign |-> 1, rest |-> "zero"])
              => ~result[1]
        /\ (\E lane \in Lanes :
               /\ call.mask[lane].sign = 1
               /\ call.self[lane] = [sign |-> 0, rest |-> "zero"])
              => result[1]

\* any_positive_masked has returned false for a packet with a positive
\* value on a lane the mask leaves out and -0.0 on a lane it keeps.
C20_Witness ==
    /\ call # <<>> /\ call.fn = "any_positive_masked"
    /\ result = <<FALSE>>
    /\ \E lane \in Lanes :
          /\ call.mask[lane].sign = 0
          /\ call.self[lane] = [sign |-> 0, rest |-> "one"]
    /\ \E lane \in Lanes :
          /\ call.mask[lane] = [sign |-> 1, rest |-> "nan"]
          /\ call.self[lane] = [sign |-> 1, rest |-> "zero"]

(***************************************************************************)
(* Properties of the traversal loop.                                       *)
(***************************************************************************)
\* C21: the loop of intersect_nearest terminates, with an empty stack, and
\* no node is pushed on the stack more than once in a call.
C21_TraversalTerminates ==
    /\ [](pc = "nearest" => <>(pc = "returned" /\ stack = <<>>))
    /\ [](\A slot \in DOMAIN pushes : pushes[slot] <= 1)

\* intersect_nearest has returned after it pushed the two children of an
\* internal node, and without pushing some other node.
C21_Witness ==
    /\ pc = "returned"
    /\ stack = <<>>
    /\ \E slot \in DOMAIN nodes :
          /\ nodes[slot].len = 0
          /\ pushes[nodes[slot].index + 1] = 1
          /\ pushes[nodes[slot].index + 2] = 1
    /\ \E slot \in DOMAIN pushes : pushes[slot] = 0

\* The depth of the subtree of a slot: 1 for a leaf.
RECURSIVE depth_below(_)
depth_below(slot) ==
    IF nodes[slot + 1].len = 0
    THEN 1 + Max(depth_below(nodes[slot + 1].index),
                 depth_below(nodes[slot + 1].index + 1))
    ELSE 1

\* The depth of the BVH, its two roots at depth 1.
bvh_depth == Max(depth_below(0), depth_below(1))

closer_or_same(old, new) ==
    \A lane \in Lanes :
        \/ new[lane] = old[lane]
        \/ new[lane].distance < old[lane].distance

\* The intersection accumulated after the first k triangles of the leaf
\* on top of the stack were tested.
after_tests(k) ==
    LET node == nodes[stack[Len(stack)].node + 1]
    IN  intersect_triangles(node.index, node.index + k, ray, isect)

\* C29: during intersect_nearest the distance of every lane never grows:
\* it is at most the distance of the intersection passed in, every
\* iteration of the loop and every triangle test in it leaves a lane as
\* it was or gives it a strictly closer hit, and the return changes
\* nothing.
C29_DistanceNeverIncreases ==
    /\ [](pc \in {"nearest", "returned"} =>
            /\ \A lane \in Lanes : isect[lane].distance <= isect0[lane].distance
            /\ (pc = "nearest" /\ stack # <<>>) =>
                  \A k \in 1..nodes[stack[Len(stack)].node + 1].len :
                      closer_or_same(after_tests(k - 1), after_tests(k)))
    /\ [][pc = "nearest" => closer_or_same(isect, isect')]_vars

\* The loop is at a leaf of two triangles, with a lane that already has a
\* hit closer than the one passed in and gets a closer one still from the
\* second triangle, and a lane that gets a closer hit from the first
\* triangle and keeps it in the test of the second.
C29_Witness ==
    /\ pc = "nearest"
    /\ stack # <<>>
    /\ nodes[stack[Len(stack)].node + 1].len = 2
    /\ \E lane \in Lanes :
          /\ isect[lane].distance < isect0[lane].distance
          /\ after_tests(2)[lane].distance < after_tests(1)[lane].distance
    /\ \E lane \in Lanes :
          /\ after_tests(1)[lane].distance < isect[lane].distance
          /\ after_tests(2)[lane] = after_tests(1)[lane]

(***************************************************************************)
(* Properties of the construction.                                         *)
(***************************************************************************)
\* C26: every split gives the node two children with at least one
\* triangle each; no interim node has neither triangles nor children; no
\* assertion of crystallize fails; and every slot crystallized from a leaf
\* has len > 0.
C26_ChildrenNotEmpty ==
    /\ [][Len(tree') > Len(tree) =>
            /\ Len(tree') = Len(tree) + 2
            /\ tree'[Len(tree) + 1].triangles # <<>>
            /\ tree'[Len(tree) + 2].triangles # <<>>]_vars
    /\ [](/\ \A id \in DOMAIN tree :
                 tree[id].triangles # <<>> \/ Len(tree[id].children) = 2
          /\ panic \in {"", "split: !is_first",
                         "build: 2 == root.children.len()"}
          /\ \A slot \in 0..(Len(nodes) - 1) :
                 (crystallized(slot) /\ tree[slot_owner[slot + 1]].children = <<>>)
                    => nodes[slot + 1].len > 0)

\* A BVH was built from a tree in which a child of the root was split
\* again, and it has a leaf of one triangle.
C26_Witness ==
    /\ pc = "built"
    /\ Len(tree) >= 5
    /\ \E slot \in 0..(Len(nodes) - 1) : nodes[slot + 1].len = 1
    /\ \E id \in DOMAIN tree :
          /\ id > 1
          /\ Len(tree[id].children) = 2
          /\ tree[tree[id].children[1]].triangles # <<>>
          /\ tree[tree[id].children[2]].triangles # <<>>

\* The slots of nodes that hold a leaf.
leaf_slots == {slot \in 0..(Len(nodes) - 1) : nodes[slot + 1].len # 0}

\* C27: in a Bvh that build returned, an internal node has
\* index + 1 < nodes.len(), a leaf has index + len <= triangles.len(), and
\* nodes.len() is the number of interim nodes other than the root; every
\* node the traversal has on its stack is a slot of nodes.
C27_IndicesValid ==
    pc \in {"built", "nearest", "returned"} =>
        /\ Len(nodes) >= 2
        /\ \A slot \in 0..(Len(nodes) - 1) :
              IF nodes[slot + 1].len = 0
              THEN nodes[slot + 1].index + 1 < Len(nodes)
              ELSE nodes[slot + 1].index + nodes[slot + 1].len
                      <= Len(sorted_triangles)
        /\ Len(nodes) = Len(tree) - 1
        /\ \A k \in DOMAIN stack : stack[k].node \in 0..(Len(nodes) - 1)

\* A traversal has entries on its stack in a BVH with an internal node
\* whose children are the last two slots, and a leaf that ends at the end
\* of the triangle buffer.
C27_Witness ==
    /\ pc = "nearest"
    /\ stack # <<>>
    /\ \E slot \in 0..(Len(nodes) - 1) :
          /\ nodes[slot + 1].len = 0
          /\ nodes[slot + 1].index + 2 = Len(nodes)
    /\ \E slot \in leaf_slots :
          /\ nodes[slot + 1].index > 0
          /\ nodes[slot + 1].index + nodes[slot + 1].len = Len(sorted_triangles)

root_bins(axis) == bin_triangles(root_node, axis, call.nan_bin)

\* The first and the last non-empty bin (zero-based).
first_bin(bins) == MinOf({b \in DOMAIN bins : bins[b] # <<>>}) - 1
last_bin(bins) == MaxOf({b \in DOMAIN bins : bins[b] # <<>>}) - 1

\* C23: for every split find_cheapest_split evaluates, at bin boundary i,
\* the left count is the number of triangles in the bins [0..i), the right
\* count that in the bins [i..64), and the two add up to the number of
\* triangles of the node.
C23_CountsOfBothSides ==
    \A k \in DOMAIN result :
        result[k].valid =>
            \A e \in result[k].evaluated :
                /\ e.left_count = count_bins(root_bins(result[k].axis), 0, e.i)
                /\ e.right_count =
                      count_bins(root_bins(result[k].axis), e.i, NumBins)
                /\ e.left_count + e.right_count = Len(source_triangles)

\* The bin boundaries of an axis with a non-empty bin on each side.
boundaries_between(bins) ==
    {i \in 0..(NumBins - 1) : first_bin(bins) < i /\ i <= last_bin(bins)}

\* C24: for an axis with at least two non-empty bins, find_cheapest_split
\* evaluates every bin boundary i with first non-empty bin < i <= last
\* non-empty bin, and returns the boundary of the least cost among them
\* together with that cost; it does not return boundary 0 with cost 0.0
\* without having evaluated a split.
C24_EveryBoundaryEvaluated ==
    \A k \in DOMAIN result :
        result[k].valid =>
            LET bins  == root_bins(result[k].axis)
                found == result[k].found
            IN  /\ {e.i : e \in result[k].evaluated} = boundaries_between(bins)
                /\ found.at \in boundaries_between(bins)
                /\ found.cost = split_cost_at(root_node, bins, found.at)
                /\ \A i \in boundaries_between(bins) :
                      ~CostLess(split_cost_at(root_node, bins, i), found.cost)
                /\ result[k].evaluated # {}

\* What find_cheapest_split does evaluate and return: the boundaries from
\* after the first non-empty bin to before the last non-empty bin, none of
\* them cheaper than the one returned, which is one of them.
evaluated_short_of_last ==
    \A k \in DOMAIN result :
        result[k].valid =>
            LET bins  == root_bins(result[k].axis)
                found == result[k].found
            IN  /\ {e.i : e \in result[k].evaluated}
                      = boundaries_between(bins) \ {last_bin(bins)}
                /\ result[k].evaluated # {}
                /\ \E e \in result[k].evaluated :
                      e.i = found.at /\ e.cost = found.cost
                /\ \A e \in result[k].evaluated :
                      ~CostLess(e.cost, found.cost)

\* The returned boundary is of the least cost among all the boundaries
\* with a non-empty bin on each side.
returned_is_cheapest ==
    \A k \in DOMAIN result :
        result[k].valid =>
            \A i \in boundaries_between(root_bins(result[k].axis)) :
                ~CostLess(split_cost_at(root_node, root_bins(result[k].axis), i),
                          result[k].found.cost)

\* The triangles binned into the bins lo..hi-1.
binned_into(bins, lo, hi) == UNION {Range(bins[b + 1]) : b \in lo..(hi - 1)}

\* C25: when the node is split at bin boundary i on an axis, the left child
\* holds exactly the triangles binned into the bins [0..i) of that axis and
\* the right child exactly those binned into the bins [i..64).
C25_PartitionMatchesBins ==
    (pc = "partitioned" /\ Len(tree) = 3) =>
        LET bins == root_bins(call.best.axis)
        IN  /\ Range(tree[2].triangles) = binned_into(bins, 0, call.best.index)
            /\ Range(tree[3].triangles)
                  = binned_into(bins, call.best.index, NumBins)

\* The same when no barycenter lies on the split coordinate.
partition_matches_off_boundary ==
    (/\ pc = "partitioned"
     /\ Len(tree) = 3
     /\ \A i \in 1..Len(source_triangles) :
           NumBins * (barycenter(SourceTriangle(i - 1))[call.best.axis]
                      - call.best.min)
               # call.best.size * call.best.index)
        => C25_PartitionMatchesBins

====
